---- MODULE Spec2Model ----
(***************************************************************************)
(* A model of zim_mcp: the LRUCache of utils.py and the ZimManager of      *)
(* zim_manager.py that owns one instance of it (archive_cache).            *)
(*                                                                         *)
(* Specifications                                                          *)
(*   Spec         the LRUCache driven by arbitrary sequences of get, put   *)
(*                and clear calls, capacity 1..MaxCap                      *)
(*   SpecAnyCap   the same calls on a cache built with any capacity in     *)
(*                -1..MaxCap (LRUCache.__init__ accepts every integer)     *)
(*   SpecCatalog  the ZimManager called by one caller at a time:           *)
(*                get_archive and clear_caches, with callers that hold on  *)
(*                to the archives they were given                          *)
(*   SpecThreads  get, put and clear called by concurrent callers,         *)
(*                statement by statement                                   *)
(*   SpecCatalogThreads  get_archive and clear_caches called by            *)
(*                concurrent callers, statement by statement               *)
(***************************************************************************)
EXTENDS Integers, Sequences, FiniteSets, TLC

\* ------------------------------------------------------------------ bounds
MaxCap == 3            \* largest capacity a cache is built with
MaxOps == 6            \* calls made on the cache in one behaviour
MaxCalls == 4          \* calls made on the catalog in one behaviour
MaxThreadCalls == 3    \* calls started by concurrent callers in one behaviour
MaxLookups == 3        \* entry lookups made in one behaviour
MaxDiskChanges == 2    \* files that come and go under the root in one behaviour
MaxPathLen == 3        \* components of a path handed to validate_zim_file_path
MaxBytes == 3          \* bytes of the content of an item
MaxElapsed == 1        \* milliseconds that a conversion takes
MaxCount == 10         \* entries asked of get_random_entries
MaxFiles == 3          \* filenames handed to get_random_entries
MaxDraws == 4          \* draws after which the outcomes of the draws repeat

\* A path is the sequence of its components below "/": <<"zim", "a.zim">> is
\* /zim/a.zim. Cache keys are str(filepath) of get_archive, the resolved
\* absolute paths of archives, one string per path.
Keys == {<<"zim", "a.zim">>, <<"zim", "b.zim">>, <<"zim", "sub", "a.zim">>}

\* The callers of the catalog.
Callers == {"c1", "c2"}

\* Cached values: archive objects, named by a positive number.
Values == {1, 2}

\* Python's None: what get returns for a key that is not resident.
None == 0

\* No exception left the call.
Ok == "ok"

VARIABLES
    archive_cache,   \* ZimManager.archive_cache: [max_size, cache, access_order]
    lastOp,          \* the last call that completed: what was asked, what came back
    clock,           \* number of calls made so far
    touched,         \* history: per key, the clock of its most recent touch (0: none)
    lastGetHit,      \* history: per key, the clock of the last get that hit it (0: none)
    archives,        \* the Archive objects created so far: archives[h] is the path of h
    live,            \* the Archive objects that are still allocated (native handle open)
    held,            \* per caller, the Archive it holds a reference to (None: none)
    frame,           \* per caller, the call it is in: the statement it is at, its
                     \* arguments and locals, and what its last call gave
    file_info_cache, \* ZimManager.file_info_cache: filepath.name -> ZimManagerFileInfo
    _available_files,\* ZimManager._available_files: <<>> is None, <<l>> the list l
    disk,            \* the filesystem: whether the root exists, the files under
                     \* it, how often it has changed
    described,       \* history: per filename, the descriptor get_zim_file_info
                     \* gave first since the last clear_caches (<<>>: none yet)
    lastCall         \* history: the last discovery, descriptor, entry or
                     \* statistics call: what was asked, what came back

cacheVars == <<archive_cache, lastOp, clock, touched, lastGetHit>>
handleVars == <<archives, live, held>>
infoVars == <<file_info_cache, _available_files, disk, described, lastCall>>
vars == <<archive_cache, lastOp, clock, touched, lastGetHit, archives, live, held,
          frame, file_info_cache, _available_files, disk, described, lastCall>>

\* ------------------------------------------------------ Python list and dict
Contains(s, x) == \E i \in 1..Len(s) : s[i] = x

\* list.remove(x): drops the first occurrence of x (the caller checks Contains).
ListRemove(s, x) ==
    LET i == CHOOSE n \in 1..Len(s) : s[n] = x /\ \A m \in 1..(n - 1) : s[m] # x
    IN  SubSeq(s, 1, i - 1) \o SubSeq(s, i + 1, Len(s))

EmptyDict == [k \in {} |-> None]

\* d[k] = v
DictSet(d, k, v) == [x \in (DOMAIN d) \cup {k} |-> IF x = k THEN v ELSE d[x]]

\* del d[k]
DictDel(d, k) == [x \in (DOMAIN d) \ {k} |-> d[x]]

\* --------------------------------------------------------------- LRUCache
\* What a call leaves behind: the object, the returned value, the exception
\* that left the call (Ok: none) and the keys it evicted.
Outcome(obj, ret, raised, evicted) ==
    [obj |-> obj, ret |-> ret, raised |-> raised, evicted |-> evicted]

\* LRUCache.__init__: no check of max_size.
LRUCache(max_size) ==
    [max_size |-> max_size, cache |-> EmptyDict, access_order |-> <<>>]

size(self) == Cardinality(DOMAIN self.cache)

\* get that returns the value and leaves the recency order alone.
get_noRefresh(self, key) ==
    IF key \in DOMAIN self.cache
    THEN Outcome(self, self.cache[key], Ok, {})
    ELSE Outcome(self, None, Ok, {})

\* get that appends to access_order a key that is not resident.
get_recordsMiss(self, key) ==
    IF key \in DOMAIN self.cache
    THEN Outcome([self EXCEPT !.access_order = Append(ListRemove(@, key), key)],
                 self.cache[key], Ok, {})
    ELSE Outcome([self EXCEPT !.access_order = Append(@, key)], None, Ok, {})

get(self, key) ==
    IF key \in DOMAIN self.cache
    THEN IF ~Contains(self.access_order, key)
         THEN Outcome(self, None, "ValueError", {})
         ELSE Outcome([self EXCEPT !.access_order = Append(ListRemove(@, key), key)],
                      self.cache[key], Ok, {})
    ELSE Outcome(self, None, Ok, {})

\* The eviction of put: pop the key at `at` of access_order, del it, insert.
PutEvicting(self, key, value, at) ==
    LET victim == self.access_order[at]
        rest == SubSeq(self.access_order, 1, at - 1)
                  \o SubSeq(self.access_order, at + 1, Len(self.access_order))
    IN  Outcome([self EXCEPT !.cache = DictSet(DictDel(@, victim), key, value),
                             !.access_order = Append(rest, key)],
                None, Ok, {victim})

PutRefreshing(self, key, value) ==
    Outcome([self EXCEPT !.cache = DictSet(@, key, value),
                         !.access_order = Append(ListRemove(@, key), key)],
            None, Ok, {})

PutInserting(self, key, value) ==
    Outcome([self EXCEPT !.cache = DictSet(@, key, value),
                         !.access_order = Append(@, key)],
            None, Ok, {})

\* put with `>` for `>=` in the capacity test: one entry too many.
put_offByOne(self, key, value) ==
    IF key \in DOMAIN self.cache THEN PutRefreshing(self, key, value)
    ELSE IF size(self) > self.max_size
         THEN PutEvicting(self, key, value, 1)
         ELSE PutInserting(self, key, value)

\* put with pop() for pop(0): evicts the most recently used key.
put_popLast(self, key, value) ==
    IF key \in DOMAIN self.cache THEN PutRefreshing(self, key, value)
    ELSE IF size(self) >= self.max_size
         THEN PutEvicting(self, key, value, Len(self.access_order))
         ELSE PutInserting(self, key, value)

\* put that tests the capacity before it tests residency: a put on a resident
\* key of a full cache evicts.
put_evictOnHit(self, key, value) ==
    IF size(self) >= self.max_size
    THEN PutEvicting(self, key, value, 1)
    ELSE IF key \in DOMAIN self.cache THEN PutRefreshing(self, key, value)
         ELSE PutInserting(self, key, value)

\* put that evicts as soon as the cache is one short of full.
put_evictEarly(self, key, value) ==
    IF key \in DOMAIN self.cache THEN PutRefreshing(self, key, value)
    ELSE IF size(self) + 1 >= self.max_size /\ self.access_order # <<>>
         THEN PutEvicting(self, key, value, 1)
         ELSE PutInserting(self, key, value)

\* put that refreshes a resident key and keeps its old value.
put_keepOld(self, key, value) ==
    IF key \in DOMAIN self.cache
    THEN PutRefreshing(self, key, self.cache[key])
    ELSE IF size(self) >= self.max_size
         THEN PutEvicting(self, key, value, 1)
         ELSE PutInserting(self, key, value)

\* put that appends a resident key to access_order without removing it first.
put_appendOnHit(self, key, value) ==
    IF key \in DOMAIN self.cache THEN PutInserting(self, key, value)
    ELSE IF size(self) >= self.max_size
         THEN PutEvicting(self, key, value, 1)
         ELSE PutInserting(self, key, value)

put(self, key, value) ==
    IF key \in DOMAIN self.cache
    THEN LET updated == [self EXCEPT !.cache = DictSet(@, key, value)]
         IN  IF ~Contains(self.access_order, key)
             THEN Outcome(updated, None, "ValueError", {})
             ELSE Outcome([updated EXCEPT
                              !.access_order = Append(ListRemove(@, key), key)],
                          None, Ok, {})
    ELSE IF size(self) >= self.max_size
         THEN IF self.access_order = <<>>
              THEN Outcome(self, None, "IndexError", {})
              ELSE LET oldest_key == Head(self.access_order)
                       popped == [self EXCEPT !.access_order = Tail(@)]
                   IN  IF oldest_key \notin DOMAIN self.cache
                       THEN Outcome(popped, None, "KeyError", {})
                       ELSE Outcome(
                              [popped EXCEPT
                                 !.cache = DictSet(DictDel(@, oldest_key), key, value),
                                 !.access_order = Append(@, key)],
                              None, Ok, {oldest_key})
         ELSE Outcome([self EXCEPT !.cache = DictSet(@, key, value),
                                   !.access_order = Append(@, key)],
                      None, Ok, {})

\* clear that empties access_order and leaves the value table.
clear_orderOnly(self) ==
    Outcome([self EXCEPT !.access_order = <<>>], None, Ok, {})

clear(self) ==
    Outcome([self EXCEPT !.cache = EmptyDict, !.access_order = <<>>],
            None, Ok, {})

\* ------------------------------------------------------------ the history
\* dropped: the values of the evicted keys. afterPut: for a get, the value of the put of the same key that came right
\* before it (None: the call before was no such put).
NoOp == [op |-> "init", key |-> <<>>, value |-> None, hit |-> FALSE,
         ret |-> None, raised |-> Ok, evicted |-> {}, dropped |-> {},
         afterPut |-> None]

\* No call yet. ret is the list returned (<<>> for None, <<d>> for the one
\* descriptor d); walked: the call walked the tree; opened: the Archive
\* objects it built; before: what described held for the filename; arg: the
\* entry path or title asked for; checked: the call asked the archive whether
\* the entry exists; looked: the call asked the archive for the entry; stats:
\* <<d>> for the dict d that get_cache_stats returned; clearing: the statements
\* at which clear_caches calls of other callers stood at that time.
NoFile == [absolute |-> FALSE, parts |-> <<>>]
NoCall == [op |-> "init", filename |-> NoFile, force_refresh |-> FALSE,
           ret |-> <<>>, raised |-> Ok, walked |-> FALSE, opened |-> 0,
           before |-> <<>>, stats |-> <<>>, clearing |-> {},
           arg |-> "", checked |-> FALSE, looked |-> FALSE,
           extracted |-> <<>>, random |-> <<>>, tool |-> <<>>]

Dropped(self, r) == {self.cache[k] : k \in r.evicted \cap DOMAIN self.cache}

\* A call touches key when it is a get that finds key resident or a put of key
\* that completes; every key that leaves the cache loses its history.
Touch(key, touches, r) ==
    /\ clock' = clock + 1
    /\ touched' = [k \in Keys |->
                     IF k = key /\ touches THEN clock + 1
                     ELSE IF k \in DOMAIN r.obj.cache THEN touched[k] ELSE 0]

\* ----------------------------------------------------------------- actions
Get(key) ==
    /\ clock < MaxOps
    /\ LET r == get(archive_cache, key)
           hit == key \in DOMAIN archive_cache.cache
       IN  /\ archive_cache' = r.obj
           /\ lastOp' = [op |-> "get", key |-> key, value |-> None, hit |-> hit,
                         ret |-> r.ret, raised |-> r.raised, evicted |-> r.evicted,
                         dropped |-> Dropped(archive_cache, r),
                         afterPut |-> IF lastOp.op = "put" /\ lastOp.key = key
                                      THEN lastOp.value ELSE None]
           /\ Touch(key, hit, r)
           /\ lastGetHit' = [k \in Keys |->
                               IF k = key /\ hit THEN clock + 1 ELSE lastGetHit[k]]
    /\ UNCHANGED <<handleVars, frame, infoVars>>

Put(key, value) ==
    /\ clock < MaxOps
    /\ LET r == put(archive_cache, key, value)
           hit == key \in DOMAIN archive_cache.cache
       IN  /\ archive_cache' = r.obj
           /\ lastOp' = [op |-> "put", key |-> key, value |-> value, hit |-> hit,
                         ret |-> r.ret, raised |-> r.raised, evicted |-> r.evicted,
                         dropped |-> Dropped(archive_cache, r),
                         afterPut |-> None]
           /\ Touch(key, r.raised = Ok, r)
           /\ lastGetHit' = [k \in Keys |->
                               IF k \in DOMAIN r.obj.cache THEN lastGetHit[k] ELSE 0]
    /\ UNCHANGED <<handleVars, frame, infoVars>>

Clear ==
    /\ clock < MaxOps
    /\ LET r == clear(archive_cache)
       IN  /\ archive_cache' = r.obj
           /\ lastOp' = [op |-> "clear", key |-> <<>>, value |-> None, hit |-> FALSE,
                         ret |-> r.ret, raised |-> r.raised, evicted |-> r.evicted,
                         dropped |-> Dropped(archive_cache, r),
                         afterPut |-> None]
           /\ Touch(<<>>, FALSE, r)
           /\ lastGetHit' = [k \in Keys |-> 0]
    /\ UNCHANGED <<handleVars, frame, infoVars>>

\* ------------------------------------------------------------- ZimManager
\* config.zim_files_directory, and what the filesystem holds: the archives
\* that open, one that libzim refuses to open, and a file outside the root.
zim_files_directory == <<"zim">>
Corrupt == {<<"zim", "bad.zim">>}
Tree == Keys \cup Corrupt
Files == (IF disk.root THEN disk.files ELSE {}) \cup {<<"etc", "passwd">>}

\* The filenames callers pass: plain names, a nested one, one that resolves to
\* the path of a plain name, one that leaves the root, one that does not exist
\* and the one that does not open.
Filenames ==
    {[absolute |-> FALSE, parts |-> p] :
        p \in {<<"a.zim">>, <<"b.zim">>, <<"sub", "a.zim">>, <<"sub", "..", "a.zim">>,
               <<"..", "etc", "passwd">>, <<"missing.zim">>, <<"bad.zim">>}}

\* Path.resolve(): "." is dropped and ".." drops the component before it (the
\* root is its own parent).
RECURSIVE Resolve(_, _)
Resolve(done, todo) ==
    IF todo = <<>> THEN done
    ELSE IF Head(todo) = "." THEN Resolve(done, Tail(todo))
    ELSE IF Head(todo) = ".."
         THEN Resolve(IF done = <<>> THEN done ELSE SubSeq(done, 1, Len(done) - 1),
                      Tail(todo))
    ELSE Resolve(Append(done, Head(todo)), Tail(todo))

\* resolved_path.relative_to(base_resolved) does not raise.
IsRelativeTo(path, base) ==
    Len(base) <= Len(path) /\ SubSeq(path, 1, Len(base)) = base

\* A path whose components are not clean: it leaves the root when its
\* components, taken as they are, do not start with the root's.
validate_unresolved(file_path, base_directory) ==
    LET joined == IF file_path.absolute THEN file_path.parts
                  ELSE base_directory \o file_path.parts
    IN  IF IsRelativeTo(joined, base_directory)
        THEN [raised |-> Ok, path |-> Resolve(<<>>, joined)]
        ELSE [raised |-> "ValueError", path |-> <<>>]

validate_zim_file_path(file_path, base_directory) ==
    LET joined == IF file_path.absolute THEN file_path.parts
                  ELSE base_directory \o file_path.parts
        resolved_path == Resolve(<<>>, joined)
    IN  IF IsRelativeTo(resolved_path, Resolve(<<>>, base_directory))
        THEN [raised |-> Ok, path |-> resolved_path]
        ELSE [raised |-> "ValueError", path |-> <<>>]

\* What get_archive leaves behind: the cache, the returned Archive (None:
\* absent), the exception that left the call, the keys evicted, the cache key
\* it looked up (<<>>: it did not get that far), whether that key was resident,
\* and whether libzim.reader.Archive(...) built a new object.
Handle(obj, ret, raised, evicted, key, hit, opened) ==
    [obj |-> obj, ret |-> ret, raised |-> raised, evicted |-> evicted,
     key |-> key, hit |-> hit, opened |-> opened]

\* The exceptions get_archive catches and turns into None.
Caught == {"OSError", "RuntimeError", "ValueError"}

\* get_archive with the path as it was passed, joined to the root and not
\* resolved, for cache key.
get_archive_rawKey(self, created, filename) ==
    LET v == validate_zim_file_path(filename, zim_files_directory)
        cache_key == zim_files_directory \o filename.parts
    IN  IF v.raised # Ok \/ v.path \notin Files
        THEN Handle(self, None, Ok, {}, <<>>, FALSE, FALSE)
        ELSE LET g == get(self, cache_key)
                 hit == cache_key \in DOMAIN self.cache
             IN  IF g.ret # None
                 THEN Handle(g.obj, g.ret, Ok, {}, cache_key, hit, FALSE)
                 ELSE IF v.path \in Corrupt
                      THEN Handle(g.obj, None, Ok, {}, cache_key, hit, FALSE)
                 ELSE LET p == put(g.obj, cache_key, created + 1)
                      IN  Handle(p.obj, created + 1, Ok, p.evicted, cache_key, hit, TRUE)

\* self: the archive_cache; created: the number of Archive objects built so
\* far, so that the next one is created + 1.
get_archive(self, created, filename) ==
    LET v == validate_zim_file_path(filename, zim_files_directory)
        cache_key == v.path
    IN  IF v.raised # Ok THEN Handle(self, None, Ok, {}, <<>>, FALSE, FALSE)
        ELSE IF cache_key \notin Files
             THEN Handle(self, None, Ok, {}, <<>>, FALSE, FALSE)
        ELSE LET g == get(self, cache_key)
                 hit == cache_key \in DOMAIN self.cache
             IN  IF g.raised # Ok
                 THEN Handle(g.obj, None, IF g.raised \in Caught THEN Ok ELSE g.raised,
                             {}, cache_key, hit, FALSE)
                 ELSE IF g.ret # None
                      THEN Handle(g.obj, g.ret, Ok, {}, cache_key, hit, FALSE)
                 ELSE IF cache_key \in Corrupt
                      THEN Handle(g.obj, None, Ok, {}, cache_key, hit, FALSE)
                 ELSE LET archive == created + 1
                          p == put(g.obj, cache_key, archive)
                      IN  IF p.raised = Ok
                          THEN Handle(p.obj, archive, Ok, p.evicted, cache_key, hit, TRUE)
                          ELSE Handle(p.obj, None,
                                      IF p.raised \in Caught THEN Ok ELSE p.raised,
                                      p.evicted, cache_key, hit, TRUE)

\* An Archive object that nothing refers to is closed and gone at once.
StillOpen_closeEvicted(candidates, self, holders) ==
    {h \in candidates : \E k \in DOMAIN self.cache : self.cache[k] = h}

\* Dropping a reference (del self.cache[oldest_key], cache.clear(), a caller
\* letting go) closes the native handle only of an Archive that neither the
\* cache nor a caller refers to any more.
StillOpen(candidates, self, holders) ==
    {h \in candidates :
        \/ \E k \in DOMAIN self.cache : self.cache[k] = h
        \/ \E c \in Callers : holders[c] = h}

\* Caller c asks for the archive of filename and keeps what it gets.
GetArchive(c, filename) ==
    /\ clock < MaxCalls
    /\ held[c] = None
    /\ LET r == get_archive(archive_cache, Len(archives), filename)
       IN  /\ archive_cache' = r.obj
           /\ archives' = IF r.opened THEN Append(archives, r.key) ELSE archives
           /\ held' = [held EXCEPT ![c] = r.ret]
           /\ live' = StillOpen(IF r.opened THEN live \cup {Len(archives) + 1} ELSE live,
                                r.obj, held')
           /\ lastOp' = [op |-> "get_archive", key |-> r.key, value |-> None,
                         hit |-> r.hit, ret |-> r.ret, raised |-> r.raised,
                         evicted |-> r.evicted, dropped |-> Dropped(archive_cache, r),
                         afterPut |-> None]
           /\ Touch(r.key, r.ret # None, r)
           /\ lastGetHit' = [k \in Keys |->
                               IF k = r.key /\ r.hit /\ r.ret # None THEN clock + 1
                               ELSE IF k \in DOMAIN r.obj.cache THEN lastGetHit[k]
                               ELSE 0]
    /\ lastCall' = [NoCall EXCEPT !.op = "get_archive", !.filename = filename]
    /\ UNCHANGED <<frame, file_info_cache, _available_files, disk, described>>

\* Caller c is done with the archive (and the entries) it got.
Release(c) ==
    /\ held[c] # None
    /\ held' = [held EXCEPT ![c] = None]
    /\ live' = StillOpen(live, archive_cache, held')
    /\ lastOp' = [NoOp EXCEPT !.op = "release"]
    /\ UNCHANGED <<archive_cache, clock, touched, lastGetHit, archives, frame, infoVars>>

\* ------------------------------------------------------- path validation
\* The paths validate_zim_file_path is tried on: relative and absolute, of up
\* to MaxPathLen components.
PathParts == {"..", ".", "sub", "a.zim", "zim", "etc"}
RECURSIVE PathsOfLen(_)
PathsOfLen(n) ==
    IF n = 0 THEN {<<>>}
    ELSE {Append(p, x) : p \in PathsOfLen(n - 1), x \in PathParts}
PathInputs ==
    {[absolute |-> a, parts |-> p] :
        a \in BOOLEAN, p \in UNION {PathsOfLen(n) : n \in 1..MaxPathLen}}

ValidatePath(file_path) ==
    /\ lastCall.op = "init"
    /\ LET v == validate_zim_file_path(file_path, zim_files_directory)
       IN  lastCall' = [lastCall EXCEPT !.op = "validate_zim_file_path",
                                       !.filename = file_path,
                                       !.raised = v.raised,
                                       !.ret = IF v.raised = Ok THEN <<v.path>>
                                               ELSE <<>>]
    /\ UNCHANGED <<cacheVars, handleVars, frame, file_info_cache, _available_files,
                   disk, described>>

\* ------------------------------------------------- descriptors, discovery
\* config.max_zim_file_size_mb, and filepath.stat().st_size / (1024 * 1024)
\* of the files of the tree: one above the limit, one exactly at it.
max_zim_file_size_mb == 2

st_size_mb ==
    [f \in Tree |-> IF f = <<"zim", "b.zim">> THEN 3
                    ELSE IF f = <<"zim", "sub", "a.zim">> THEN 2 ELSE 1]

\* The files whose size is above config.max_zim_file_size_mb.
Oversize == {f \in Tree : st_size_mb[f] > max_zim_file_size_mb}

\* What the archive of a file declares: archive.article_count,
\* archive.media_count, archive.has_fulltext_index, archive.has_title_index.
Declared ==
    [f \in Tree |->
        IF f = <<"zim", "sub", "a.zim">>
        THEN [article_count |-> 0, media_count |-> 0,
              has_fulltext_index |-> FALSE, has_title_index |-> TRUE]
        ELSE IF f = <<"zim", "b.zim">>
        THEN [article_count |-> 5, media_count |-> 1,
              has_fulltext_index |-> TRUE, has_title_index |-> TRUE]
        ELSE [article_count |-> 2, media_count |-> 1,
              has_fulltext_index |-> TRUE, has_title_index |-> FALSE]]

\* What a descriptor built without opening the archive carries instead.
Undeclared ==
    [article_count |-> 0, media_count |-> 0,
     has_fulltext_index |-> FALSE, has_title_index |-> FALSE]

\* The description of a descriptor built without opening the archive.
LargeFile == "Large ZIM file (skipped metadata loading due to size)"

\* A descriptor. counts holds article_count, media_count and the two index
\* flags; uuid stands for the rest that is read from the opened archive
\* (metadata, uuid): it is the path of the archive read, <<>> when none was.
ZimManagerFileInfo(filename, filepath, counts, description, uuid) ==
    [filename |-> filename, filepath |-> filepath,
     article_count |-> counts.article_count, media_count |-> counts.media_count,
     description |-> description,
     has_fulltext_index |-> counts.has_fulltext_index,
     has_title_index |-> counts.has_title_index, uuid |-> uuid]

\* What _get_zim_file_info leaves behind: the file_info_cache, the descriptor
\* returned (<<>>: none), the exception that left it, the Archive objects built.
Info(cache, ret, raised, opened) ==
    [cache |-> cache, ret |-> ret, raised |-> raised, opened |-> opened]

\* _get_zim_file_info that reads the file whether or not it has a descriptor.
_get_zim_file_info_uncached(cache, filepath) ==
    LET filename == filepath[Len(filepath)]
    IN  IF filepath \notin Files THEN Info(cache, <<>>, "OSError", 0)
        ELSE IF filepath \in Oversize
             THEN LET file_info == ZimManagerFileInfo(filename, filepath, Undeclared,
                                                     LargeFile, <<>>)
                  IN  Info(DictSet(cache, filename, file_info), <<file_info>>, Ok, 0)
        ELSE IF filepath \in Corrupt THEN Info(cache, <<>>, "RuntimeError", 0)
        ELSE LET file_info == ZimManagerFileInfo(filename, filepath,
                                                Declared[filepath], "", filepath)
             IN  Info(DictSet(cache, filename, file_info), <<file_info>>, Ok, 1)

\* _get_zim_file_info that opens the archive whatever the size of the file.
_get_zim_file_info_anySize(cache, filepath) ==
    LET filename == filepath[Len(filepath)]
    IN  IF filename \in DOMAIN cache THEN Info(cache, <<cache[filename]>>, Ok, 0)
        ELSE IF filepath \notin Files THEN Info(cache, <<>>, "OSError", 0)
        ELSE IF filepath \in Corrupt THEN Info(cache, <<>>, "RuntimeError", 0)
        ELSE LET file_info == ZimManagerFileInfo(filename, filepath,
                                                Declared[filepath], "", filepath)
             IN  Info(DictSet(cache, filename, file_info), <<file_info>>, Ok, 1)

_get_zim_file_info(cache, filepath) ==
    LET filename == filepath[Len(filepath)]
    IN  IF filename \in DOMAIN cache THEN Info(cache, <<cache[filename]>>, Ok, 0)
        ELSE IF filepath \notin Files THEN Info(cache, <<>>, "OSError", 0)
        ELSE IF filepath \in Oversize
             THEN LET file_info == ZimManagerFileInfo(filename, filepath, Undeclared,
                                                     LargeFile, <<>>)
                  IN  Info(DictSet(cache, filename, file_info), <<file_info>>, Ok, 0)
        ELSE IF filepath \in Corrupt THEN Info(cache, <<>>, "RuntimeError", 0)
        ELSE LET file_info == ZimManagerFileInfo(filename, filepath,
                                                Declared[filepath], "", filepath)
             IN  Info(DictSet(cache, filename, file_info), <<file_info>>, Ok, 1)

get_zim_file_info(cache, filename) ==
    LET v == validate_zim_file_path(filename, zim_files_directory)
    IN  IF v.raised # Ok
        THEN Info(cache, <<>>, IF v.raised \in Caught THEN Ok ELSE v.raised, 0)
        ELSE IF v.path \notin Files THEN Info(cache, <<>>, Ok, 0)
        ELSE LET r == _get_zim_file_info(cache, v.path)
             IN  IF r.raised \in Caught THEN Info(r.cache, <<>>, Ok, r.opened) ELSE r

\* The loop of discover_zim_files over todo, the files in the order rglob
\* yields them: a file whose _get_zim_file_info raises is skipped.
RECURSIVE Walk(_, _, _, _)
Walk(cache, zim_files, todo, opened) ==
    IF todo = <<>> THEN Info(cache, zim_files, Ok, opened)
    ELSE LET r == _get_zim_file_info(cache, Head(todo))
         IN  Walk(r.cache, IF r.raised = Ok THEN zim_files \o r.ret ELSE zim_files,
                  Tail(todo), opened + r.opened)

\* What discover_zim_files leaves behind: the file_info_cache, the memo
\* _available_files, the list returned, whether it walked, the Archives built.
Discovery(cache, memo, ret, walked, opened) ==
    [cache |-> cache, memo |-> memo, ret |-> ret, walked |-> walked,
     opened |-> opened]

\* discover_zim_files that walks whether or not it has a list.
discover_alwaysWalks(cache, memo, force_refresh, todo) ==
    IF ~disk.root THEN Discovery(cache, memo, <<>>, FALSE, 0)
    ELSE LET w == Walk(cache, <<>>, todo, 0)
         IN  Discovery(w.cache, <<w.ret>>, w.ret, TRUE, w.opened)

discover_zim_files(cache, memo, force_refresh, todo) ==
    IF memo # <<>> /\ ~force_refresh THEN Discovery(cache, memo, memo[1], FALSE, 0)
    ELSE IF ~disk.root THEN Discovery(cache, memo, <<>>, FALSE, 0)
    ELSE LET w == Walk(cache, <<>>, todo, 0)
         IN  Discovery(w.cache, <<w.ret>>, w.ret, TRUE, w.opened)

\* zim_directory.rglob("*.zim"): the files under the root, in an order that
\* the filesystem chooses.
Rglob ==
    LET found == IF disk.root THEN disk.files ELSE {}
    IN  {todo \in [1..Cardinality(found) -> found] :
            \A i, j \in DOMAIN todo : i # j => todo[i] # todo[j]}

Discover(force_refresh) ==
    /\ clock < MaxCalls
    /\ \E todo \in Rglob :
          LET r == discover_zim_files(file_info_cache, _available_files,
                                      force_refresh, todo)
          IN  /\ file_info_cache' = r.cache
              /\ _available_files' = r.memo
              /\ lastCall' = [NoCall EXCEPT !.op = "discover_zim_files",
                                            !.force_refresh = force_refresh,
                                            !.ret = r.ret, !.walked = r.walked,
                                            !.opened = r.opened]
    /\ clock' = clock + 1
    /\ lastOp' = [NoOp EXCEPT !.op = "discover_zim_files"]
    /\ UNCHANGED <<archive_cache, touched, lastGetHit, handleVars, frame, disk,
                   described>>

GetZimFileInfo(filename) ==
    /\ clock < MaxCalls
    /\ LET r == get_zim_file_info(file_info_cache, filename)
       IN  /\ file_info_cache' = r.cache
           /\ lastCall' = [NoCall EXCEPT !.op = "get_zim_file_info",
                                         !.filename = filename, !.ret = r.ret,
                                         !.raised = r.raised, !.opened = r.opened,
                                         !.before = described[filename]]
           /\ described' = IF described[filename] = <<>>
                           THEN [described EXCEPT ![filename] = r.ret]
                           ELSE described
    /\ clock' = clock + 1
    /\ lastOp' = [NoOp EXCEPT !.op = "get_zim_file_info"]
    /\ UNCHANGED <<archive_cache, touched, lastGetHit, handleVars, frame, disk,
                   _available_files>>

\* The disk changes under the server: a file goes, a file comes (and with it
\* the root, if it was gone), the root goes with all that is under it.
Unlink(filepath) ==
    /\ disk.changes < MaxDiskChanges
    /\ filepath \in disk.files
    /\ disk' = [disk EXCEPT !.files = @ \ {filepath}, !.changes = @ + 1]
    /\ UNCHANGED <<cacheVars, handleVars, frame, file_info_cache, _available_files,
                   described, lastCall>>

Create(filepath) ==
    /\ disk.changes < MaxDiskChanges
    /\ filepath \notin disk.files
    /\ disk' = [root |-> TRUE, files |-> disk.files \cup {filepath},
                changes |-> disk.changes + 1]
    /\ UNCHANGED <<cacheVars, handleVars, frame, file_info_cache, _available_files,
                   described, lastCall>>

Rmtree ==
    /\ disk.changes < MaxDiskChanges
    /\ disk.root
    /\ disk' = [root |-> FALSE, files |-> {}, changes |-> disk.changes + 1]
    /\ UNCHANGED <<cacheVars, handleVars, frame, file_info_cache, _available_files,
                   described, lastCall>>

\* ZimManager.clear_caches
ClearCaches ==
    /\ clock < MaxCalls
    /\ LET r == clear(archive_cache)
       IN  /\ archive_cache' = r.obj
           /\ live' = StillOpen(live, r.obj, held)
           /\ lastOp' = [NoOp EXCEPT !.op = "clear_caches"]
           /\ Touch(<<>>, FALSE, r)
           /\ lastGetHit' = [k \in Keys |-> 0]
    /\ file_info_cache' = EmptyDict
    /\ _available_files' = <<>>
    /\ described' = [f \in Filenames |-> <<>>]
    /\ lastCall' = NoCall
    /\ UNCHANGED <<archives, held, frame, disk>>

\* ----------------------------------------------------------------- entries
\* What the archives hold: every archive that has entries has one at the path
\* "A/x" with the title "X"; one archive has no entry at all, and that one
\* and another have no main entry.
EntryPaths == {"A/x", "A/none"}
Titles == {"X", "none"}
Empty == {<<"zim", "sub", "a.zim">>}
NoMain == Empty \cup {<<"zim", "b.zim">>}
has_entry_by_path(archive, entry_path) == archive \notin Empty /\ entry_path = "A/x"
has_entry_by_title(archive, title) == archive \notin Empty /\ title = "X"
has_main_entry(archive) == archive \notin NoMain
TheEntry(archive) == [archive |-> archive, path |-> "A/x", title |-> "X"]

\* What libzim raises when it is asked for an entry that is not there.
LibzimErrors == {"KeyError", "RuntimeError"}

\* The exceptions the get_*_entry methods catch and turn into None.
CaughtByLookup == {"KeyError", "ValueError", "RuntimeError", "OSError"}

\* What a get_*_entry method leaves behind: h, what its get_archive left; the
\* entry returned (<<>>: None); the exception that left the method; whether it
\* asked has_* and whether it asked for the entry.
Lookup(h, ret, raised, checked, looked) ==
    [h |-> h, ret |-> ret, raised |-> IF raised \in CaughtByLookup THEN Ok ELSE raised,
     checked |-> checked, looked |-> looked]

\* A method that asks for the entry without asking whether it exists, and is
\* answered with the exception error when it does not.
lookup_unchecked(self, created, filename, exists, error) ==
    LET h == get_archive(self, created, filename)
    IN  IF h.raised # Ok THEN Lookup(h, <<>>, h.raised, FALSE, FALSE)
        ELSE IF h.ret = None THEN Lookup(h, <<>>, Ok, FALSE, FALSE)
        ELSE IF ~exists[h.key] THEN Lookup(h, <<>>, error, FALSE, TRUE)
        ELSE Lookup(h, <<TheEntry(h.key)>>, Ok, FALSE, TRUE)

\* The shape of get_entry_by_path, get_entry_by_title and get_main_entry:
\* exists[archive] is what has_* answers.
lookup_checked(self, created, filename, exists) ==
    LET h == get_archive(self, created, filename)
    IN  IF h.raised # Ok THEN Lookup(h, <<>>, h.raised, FALSE, FALSE)
        ELSE IF h.ret = None THEN Lookup(h, <<>>, Ok, FALSE, FALSE)
        ELSE IF ~exists[h.key] THEN Lookup(h, <<>>, Ok, TRUE, FALSE)
        ELSE Lookup(h, <<TheEntry(h.key)>>, Ok, TRUE, TRUE)

\* get_entry_by_path without the has_entry_by_path line.
get_entry_by_path_unchecked(self, created, filename, entry_path) ==
    lookup_unchecked(self, created, filename,
                     [a \in Tree |-> has_entry_by_path(a, entry_path)], "KeyError")

get_entry_by_path(self, created, filename, entry_path) ==
    lookup_checked(self, created, filename,
                   [a \in Tree |-> has_entry_by_path(a, entry_path)])

get_entry_by_title(self, created, filename, title) ==
    lookup_checked(self, created, filename,
                   [a \in Tree |-> has_entry_by_title(a, title)])

get_main_entry(self, created, filename) ==
    lookup_checked(self, created, filename, [a \in Tree |-> has_main_entry(a)])

\* archive.get_random_entry() raises in an archive that has no entry.
get_random_entry(self, created, filename, error) ==
    lookup_unchecked(self, created, filename, [a \in Tree |-> a \notin Empty], error)

\* The effects of a get_*_entry call that left r; the caller keeps nothing.
Looked(op, filename, arg, r) ==
    /\ archive_cache' = r.h.obj
    /\ archives' = IF r.h.opened THEN Append(archives, r.h.key) ELSE archives
    /\ live' = StillOpen(IF r.h.opened THEN live \cup {Len(archives) + 1} ELSE live,
                         r.h.obj, held)
    /\ lastOp' = [NoOp EXCEPT !.op = op, !.key = r.h.key, !.hit = r.h.hit,
                              !.raised = r.raised, !.evicted = r.h.evicted,
                              !.dropped = Dropped(archive_cache, r.h)]
    /\ Touch(r.h.key, r.h.ret # None, r.h)
    /\ lastGetHit' = [k \in Keys |->
                        IF k = r.h.key /\ r.h.hit /\ r.h.ret # None THEN clock + 1
                        ELSE IF k \in DOMAIN r.h.obj.cache THEN lastGetHit[k]
                        ELSE 0]
    /\ lastCall' = [NoCall EXCEPT !.op = op, !.filename = filename, !.arg = arg,
                                  !.ret = r.ret, !.raised = r.raised,
                                  !.checked = r.checked, !.looked = r.looked]
    /\ UNCHANGED <<held, frame, file_info_cache, _available_files, disk, described>>

GetEntryByPath(filename, entry_path) ==
    /\ clock < MaxLookups
    /\ Looked("get_entry_by_path", filename, entry_path,
              get_entry_by_path(archive_cache, Len(archives), filename, entry_path))

GetEntryByTitle(filename, title) ==
    /\ clock < MaxLookups
    /\ Looked("get_entry_by_title", filename, title,
              get_entry_by_title(archive_cache, Len(archives), filename, title))

GetMainEntry(filename) ==
    /\ clock < MaxLookups
    /\ Looked("get_main_entry", filename, "",
              get_main_entry(archive_cache, Len(archives), filename))

GetRandomEntry(filename) ==
    /\ clock < MaxLookups
    /\ \E error \in LibzimErrors :
          Looked("get_random_entry", filename, "",
                 get_random_entry(archive_cache, Len(archives), filename, error))

\* ----------------------------------------------------------- ContentExtractor
\* A str is a sequence of symbols, len() its Len: a symbol is one character,
\* or one of the fixed literals of the source taken whole. A bytes is a
\* sequence of integers 0..255.

\* str.startswith
startswith(s, prefix) ==
    /\ Len(prefix) <= Len(s)
    /\ SubSeq(s, 1, Len(prefix)) = prefix

\* The prefixes the source tests, and the MIME type given to an item that
\* declares none.
text_html == <<"t", "e", "x", "t", "/", "h", "t", "m", "l">>
text_ == <<"t", "e", "x", "t", "/">>
image_ == <<"i", "m", "a", "g", "e", "/">>
application_json == <<"a", "p", "p", "l", "i", "c", "a", "t", "i", "o", "n", "/", "j", "s", "o", "n">>
application_octet_stream == <<"a", "p", "p", "l", "i", "c", "a", "t", "i", "o", "n", "/", "o", "c", "t", "e", "t", "-", "s", "t", "r", "e", "a", "m">>
redirect == <<"r", "e", "d", "i", "r", "e", "c", "t">>

\* The declared MIME types of the items: none (the empty string), and types
\* on both sides of each prefix.
MimeTypes ==
    {<<>>,
     <<"t", "e", "x", "t", "/", "h", "t", "m", "l">>,
     <<"t", "e", "x", "t", "/", "h", "t", "m">>,
     <<"t", "e", "x", "t", "/", "p", "l", "a", "i", "n">>,
     <<"t", "e", "x", "t">>,
     <<"i", "m", "a", "g", "e", "/", "p", "n", "g">>,
     <<"a", "p", "p", "l", "i", "c", "a", "t", "i", "o", "n", "/", "j", "s", "o", "n">>,
     <<"a", "p", "p", "l", "i", "c", "a", "t", "i", "o", "n", "/", "j", "s", "o", "n", "l">>,
     <<"a", "p", "p", "l", "i", "c", "a", "t", "i", "o", "n", "/", "p", "d", "f">>}

\* The bytes an item content is made of: "[", "]", "1", and the two bytes of
\* the UTF-8 encoding of U+00E9, each of which is invalid on its own.
Bytes == {49, 91, 93, 195, 169}

\* chr(): the character of a code point.
chr(c) ==
    CASE c = 49 -> "1"
      [] c = 91 -> "["
      [] c = 93 -> "]"
      [] c = 233 -> "U+00E9"
      [] OTHER -> "U+FFFD"

\* bytes.decode("utf-8", errors="replace"): an ASCII byte is its character, a
\* lead byte 0xC2..0xDF with a continuation byte 0x80..0xBF is one character,
\* and a byte that starts no valid sequence is U+FFFD.
RECURSIVE decode(_)
decode(content_bytes) ==
    IF content_bytes = <<>> THEN <<>>
    ELSE LET b == content_bytes[1]
             rest == Tail(content_bytes)
         IN  IF b < 128 THEN <<chr(b)>> \o decode(rest)
             ELSE IF /\ b \in 194..223
                     /\ rest # <<>>
                     /\ rest[1] \in 128..191
                  THEN <<chr((b - 192) * 64 + (rest[1] - 128))>> \o decode(Tail(rest))
             ELSE <<"U+FFFD">> \o decode(rest)

\* The base64 alphabet of RFC 4648.
b64alphabet ==
    <<"A", "B", "C", "D", "E", "F", "G", "H", "I", "J", "K", "L", "M", "N", "O", "P",
     "Q", "R", "S", "T", "U", "V", "W", "X", "Y", "Z", "a", "b", "c", "d", "e", "f",
     "g", "h", "i", "j", "k", "l", "m", "n", "o", "p", "q", "r", "s", "t", "u", "v",
     "w", "x", "y", "z", "0", "1", "2", "3", "4", "5", "6", "7", "8", "9", "+", "/">>

\* base64.b64encode(...).decode("ascii"): three bytes make four characters,
\* a last group of one or two bytes is padded with "=".
RECURSIVE b64encode(_)
b64encode(content_bytes) ==
    IF content_bytes = <<>> THEN <<>>
    ELSE LET n == Len(content_bytes)
             b1 == content_bytes[1]
             b2 == IF n >= 2 THEN content_bytes[2] ELSE 0
             b3 == IF n >= 3 THEN content_bytes[3] ELSE 0
             c1 == b64alphabet[(b1 \div 4) + 1]
             c2 == b64alphabet[(b1 % 4) * 16 + (b2 \div 16) + 1]
             c3 == IF n >= 2 THEN b64alphabet[(b2 % 16) * 4 + (b3 \div 64) + 1]
                   ELSE "="
             c4 == IF n >= 3 THEN b64alphabet[(b3 % 64) + 1] ELSE "="
         IN  <<c1, c2, c3, c4>>
             \o (IF n > 3 THEN b64encode(SubSeq(content_bytes, 4, n)) ELSE <<>>)

\* json.loads succeeds: the documents that the characters at hand can write
\* are a number, an empty array and an array of one document.
RECURSIVE json_loads(_)
json_loads(raw) ==
    \/ raw # <<>> /\ \A i \in DOMAIN raw : raw[i] = "1"
    \/ /\ Len(raw) >= 2
       /\ raw[1] = "[" /\ raw[Len(raw)] = "]"
       /\ Len(raw) = 2 \/ json_loads(SubSeq(raw, 2, Len(raw) - 1))

\* json.dumps(json.loads(raw), indent=2) at a depth of nesting: a number and
\* an empty array as they are, an array with its element on a line of its
\* own, two spaces deeper.
RECURSIVE indent(_)
indent(level) == IF level = 0 THEN <<>> ELSE <<" ", " ">> \o indent(level - 1)

RECURSIVE json_dumps(_, _)
json_dumps(raw, level) ==
    IF raw[1] # "[" \/ Len(raw) = 2 THEN raw
    ELSE <<"[", "\n">> \o indent(level + 1)
         \o json_dumps(SubSeq(raw, 2, Len(raw) - 1), level + 1)
         \o <<"\n">> \o indent(level) \o <<"]">>

\* str(n) of a natural number, and format(n, ","): groups of three digits.
digits == <<"0", "1", "2", "3", "4", "5", "6", "7", "8", "9">>

RECURSIVE str(_)
str(n) == IF n < 10 THEN <<digits[n + 1]>> ELSE str(n \div 10) \o <<digits[(n % 10) + 1]>>

RECURSIVE grouped(_)
grouped(n) ==
    IF n < 1000 THEN str(n)
    ELSE grouped(n \div 1000)
         \o <<",", digits[((n \div 100) % 10) + 1], digits[((n \div 10) % 10) + 1],
              digits[(n % 10) + 1]>>

\* format(x, ".1f") of x given in tenths.
tenths(n) == str(n \div 10) \o <<".", digits[(n % 10) + 1]>>

\* format(size / 1024, ".1f"): the tenths of a kilobyte nearest to size bytes.
size_kb(original_size) == tenths((original_size * 20 + 1024) \div 2048)

\* The literals of the source, each a symbol.
RedirectNotice == "[This is a redirect entry]"
TruncationMarker == "\n\n... [Content truncated at configured limit] ..."
ConversionFailed == "[MarkItDown conversion failed: error]\n\n"

\* ExtractedContentInfo
ExtractedContentInfo(path, title, content, content_type, content_length, mime_type, processing_time_ms, is_redirect) ==
    [path |-> path, title |-> title, content |-> content,
     content_type |-> content_type, content_length |-> content_length,
     mime_type |-> mime_type, processing_time_ms |-> processing_time_ms,
     is_redirect |-> is_redirect]

\* What a step of the pipeline hands on: the content, the time it reports,
\* and whether the conversion of MarkItDown raised in it.
Processed(content, processing_time_ms, failed) ==
    [content |-> content, processing_time_ms |-> processing_time_ms,
     failed |-> failed]

\* _handle_raw_output that takes every MIME type for text.
handle_raw_allText(content_bytes, mime_type) ==
    Processed(decode(content_bytes), 0, FALSE)

_handle_raw_output(content_bytes, mime_type) ==
    IF startswith(mime_type, text_)
    THEN Processed(decode(content_bytes), 0, FALSE)
    ELSE Processed(<<"[Base64 Encoded - ">> \o mime_type \o <<"]\n\n">>
                   \o b64encode(content_bytes), 0, FALSE)

\* _convert_html_to_markdown that falls back to the notice alone.
convert_dropsBody(content_bytes, converted) ==
    Processed(IF converted # <<>> THEN converted[1] ELSE <<ConversionFailed>>,
              0, converted = <<>>)

\* _convert_html_to_markdown. converted is what markitdown.convert_stream
\* does with the stream: <<>> when it raises, <<text_content>> when it
\* returns.
_convert_html_to_markdown(content_bytes, converted) ==
    IF converted # <<>> THEN Processed(converted[1], 0, FALSE)
    ELSE LET raw_html == decode(content_bytes)
         IN  Processed(<<ConversionFailed>> \o raw_html, 0, TRUE)

\* The footer of _add_metadata_footer.
footer(mime_type, original_size, processing_ms) ==
    <<"\n\n---\n\n**Entry Metadata**\n- **Original Format**: ">> \o mime_type
    \o <<"\n- **Converted To**: Markdown\n- **Original Size**: ">>
    \o size_kb(original_size)
    \o <<" KB\n- **Processing Time**: ">> \o tenths(processing_ms * 10)
    \o <<" ms\n">>

_add_metadata_footer(content, mime_type, original_size, processing_ms) ==
    content \o footer(mime_type, original_size, processing_ms)

_handle_image_metadata(content_bytes, mime_type, path, title) ==
    <<"# Image Entry\n\n**Title**: ", title, "\n**Path**: ", path,
      "\n**MIME Type**: ">> \o mime_type
    \o <<"\n**Size**: ">> \o size_kb(Len(content_bytes)) \o <<" KB (">>
    \o grouped(Len(content_bytes))
    \o <<" bytes)\n\nThis is an image file. [...] if needed.\n">>

_handle_binary_metadata(content_bytes, mime_type) ==
    <<"# Binary Content\n\n**MIME Type**: ">> \o mime_type
    \o <<"\n**Size**: ">> \o size_kb(Len(content_bytes)) \o <<" KB (">>
    \o grouped(Len(content_bytes))
    \o <<" bytes)\n\nThis is binary content [...] text-based analysis\n">>

\* _process_by_mimetype that leaves a payload that does not parse out.
process_dropsUnparsed(content_bytes, mime_type, path, title, converted, elapsed_ms) ==
    Processed(IF json_loads(decode(content_bytes))
              THEN json_dumps(decode(content_bytes), 0) ELSE <<>>,
              elapsed_ms, FALSE)

\* _process_by_mimetype. elapsed_ms is (time.time() - start_time) * 1000 in
\* whole milliseconds, of a clock that does not run backwards. No branch
\* raises, for _convert_html_to_markdown catches what the conversion raises
\* and decode replaces what it cannot decode: the handler of lines 188-191
\* is not entered.
_process_by_mimetype(content_bytes, mime_type, path, title, converted, elapsed_ms) ==
    IF startswith(mime_type, text_html)
    THEN LET c == _convert_html_to_markdown(content_bytes, converted)
         IN  Processed(_add_metadata_footer(c.content, mime_type,
                                            Len(content_bytes), elapsed_ms),
                       elapsed_ms, c.failed)
    ELSE IF startswith(mime_type, text_)
    THEN Processed(decode(content_bytes), elapsed_ms, FALSE)
    ELSE IF startswith(mime_type, image_)
    THEN Processed(_handle_image_metadata(content_bytes, mime_type, path, title),
                   elapsed_ms, FALSE)
    ELSE IF startswith(mime_type, application_json)
    THEN LET raw == decode(content_bytes)
         IN  Processed(IF json_loads(raw) THEN json_dumps(raw, 0) ELSE raw,
                       elapsed_ms, FALSE)
    ELSE Processed(_handle_binary_metadata(content_bytes, mime_type),
                   elapsed_ms, FALSE)

\* _get_format_type that tests the prefix "text/" first.
format_type_textFirst(mime_type) ==
    IF startswith(mime_type, text_) THEN "text"
    ELSE IF startswith(mime_type, text_html) THEN "markdown"
    ELSE IF startswith(mime_type, image_) THEN "image_metadata"
    ELSE IF startswith(mime_type, application_json) THEN "json"
    ELSE "binary_metadata"

_get_format_type(mime_type) ==
    IF startswith(mime_type, text_html) THEN "markdown"
    ELSE IF startswith(mime_type, text_) THEN "text"
    ELSE IF startswith(mime_type, image_) THEN "image_metadata"
    ELSE IF startswith(mime_type, application_json) THEN "json"
    ELSE "binary_metadata"

\* What _extract_from_entry leaves behind: the ExtractedContentInfo (<<>>
\* when an exception left the call), that exception, whether entry.get_item()
\* was called, the content before the truncation, whether the conversion of
\* MarkItDown raised.
Extraction(info, fetched, processed, failed) ==
    [info |-> info, raised |-> Ok, fetched |-> fetched, processed |-> processed,
     failed |-> failed]

\* entry.get_item() or item.content raises: lines 99-101 stand in no try.
Unfetched(error) ==
    [info |-> <<>>, raised |-> error, fetched |-> TRUE, processed |-> <<>>,
     failed |-> FALSE]

\* The truncation of lines 116-120.
truncate_atLimit(content, max_content_length) ==
    IF Len(content) >= max_content_length
    THEN SubSeq(content, 1, max_content_length) \o <<TruncationMarker>>
    ELSE content

truncate(content, max_content_length) ==
    IF Len(content) > max_content_length
    THEN SubSeq(content, 1, max_content_length) \o <<TruncationMarker>>
    ELSE content

\* _extract_from_entry that handles a redirect entry as it does any other.
extract_followsRedirect(entry, raw_output, max_content_length, converted, elapsed_ms) ==
    IF entry.raises # Ok THEN Unfetched(entry.raises) ELSE
    LET item == entry.item[1]
        content_bytes == item.content
        mime_type == IF item.mimetype # <<>> THEN item.mimetype
                     ELSE application_octet_stream
        p == IF raw_output THEN _handle_raw_output(content_bytes, mime_type)
             ELSE _process_by_mimetype(content_bytes, mime_type, entry.path,
                                       entry.title, converted, elapsed_ms)
        format_type == IF raw_output THEN "raw" ELSE _get_format_type(mime_type)
    IN  Extraction(ExtractedContentInfo(entry.path, entry.title,
                                        truncate(p.content, max_content_length),
                                        format_type, Len(content_bytes),
                                        mime_type, p.processing_time_ms, FALSE),
                   TRUE, p.content, p.failed)

\* _extract_from_entry, under config.max_content_length.
_extract_from_entry(entry, raw_output, max_content_length, converted, elapsed_ms) ==
    IF entry.is_redirect
    THEN Extraction(ExtractedContentInfo(entry.path, entry.title, <<RedirectNotice>>,
                                        "redirect", 0, redirect, 0, TRUE),
                    FALSE, <<RedirectNotice>>, FALSE)
    ELSE IF entry.raises # Ok THEN Unfetched(entry.raises)
    ELSE LET item == entry.item[1]
             content_bytes == item.content
             mime_type == IF item.mimetype # <<>> THEN item.mimetype
                          ELSE application_octet_stream
             p == IF raw_output THEN _handle_raw_output(content_bytes, mime_type)
                  ELSE _process_by_mimetype(content_bytes, mime_type, entry.path,
                                            entry.title, converted, elapsed_ms)
             format_type == IF raw_output THEN "raw" ELSE _get_format_type(mime_type)
         IN  Extraction(ExtractedContentInfo(entry.path, entry.title,
                                             truncate(p.content, max_content_length),
                                             format_type, Len(content_bytes),
                                             mime_type, p.processing_time_ms, FALSE),
                        TRUE, p.content, p.failed)

\* The item contents, the items, and the entries to extract from: entry.item
\* is what entry.get_item() yields, through the redirect when the entry is
\* one, and entry.raises the exception with which libzim fails to yield it
\* (Ok: it does not fail).
ByteStrings == UNION {[1..n -> Bytes] : n \in 0..MaxBytes}

Items == [content : ByteStrings, mimetype : MimeTypes]

Readable ==
    {[is_redirect |-> r, path |-> "A/x", title |-> "X", item |-> <<item>>,
      raises |-> Ok] : r \in BOOLEAN, item \in Items}

Unreadable ==
    {[is_redirect |-> r, path |-> "A/x", title |-> "X",
      item |-> <<[content |-> <<>>, mimetype |-> mimetype]>>, raises |-> error] :
        r \in BOOLEAN, mimetype \in {text_html, <<>>}, error \in LibzimErrors}

Entries == Readable \cup Unreadable

\* The values of config.max_content_length: one that the shortest contents
\* exceed, one that a footer fits in.
max_content_lengths == {2, 21}

\* What markitdown.convert_stream may do with a stream: raise, or return the
\* text of the document, as it is or under a heading.
Conversions(content_bytes) ==
    {<<>>, <<decode(content_bytes)>>, <<<<"#", " ">> \o decode(content_bytes)>>}

\* One call of _extract_from_entry, on a ContentExtractor just constructed
\* with some config.max_content_length.
Extract ==
    /\ lastCall.op = "init"
    /\ \E entry \in Entries, raw_output \in BOOLEAN :
        \E max_content_length \in max_content_lengths,
           converted \in Conversions(entry.item[1].content),
           elapsed_ms \in 0..MaxElapsed :
            lastCall' = [NoCall EXCEPT
                !.op = "_extract_from_entry",
                !.extracted = <<[entry |-> entry, raw_output |-> raw_output,
                                 max_content_length |-> max_content_length,
                                 out |-> _extract_from_entry(entry, raw_output,
                                                             max_content_length,
                                                             converted, elapsed_ms)]>>]
    /\ UNCHANGED <<cacheVars, handleVars, frame, file_info_cache, _available_files,
                   disk, described>>

\* What extract_entry_content leaves behind: the ExtractedContentInfo it
\* returns (<<>>: None), the exception that left it, and the call of
\* _extract_from_entry it made (<<>>: none).
Extracting(ret, raised, calls) == [ret |-> ret, raised |-> raised, calls |-> calls]

\* The exceptions extract_entry_content catches and turns into None.
CaughtByExtract == {"OSError", "ValueError", "RuntimeError"}

\* extract_entry_content. found is what zim_manager.get_entry_by_path
\* returned: <<>> for None, <<entry>> for the entry.
extract_entry_content(found, raw_output, max_content_length, converted, elapsed_ms) ==
    IF found = <<>> THEN Extracting(<<>>, Ok, <<>>)
    ELSE LET out == _extract_from_entry(found[1], raw_output, max_content_length,
                                        converted, elapsed_ms)
             call == [entry |-> found[1], raw_output |-> raw_output,
                      max_content_length |-> max_content_length, out |-> out]
         IN  IF out.raised = Ok THEN Extracting(<<out.info>>, Ok, <<call>>)
             ELSE IF out.raised \in CaughtByExtract THEN Extracting(<<>>, Ok, <<call>>)
             ELSE Extracting(<<>>, out.raised, <<call>>)

\* One call of extract_entry_content, for an entry path that the archive has
\* or has not.
ExtractEntryContent ==
    /\ lastCall.op = "init"
    /\ \E found \in {<<>>} \cup {<<entry>> : entry \in Entries}, raw_output \in BOOLEAN :
        \E max_content_length \in max_content_lengths,
           converted \in IF found = <<>> THEN {<<>>}
                         ELSE Conversions(found[1].item[1].content),
           elapsed_ms \in 0..MaxElapsed :
            LET r == extract_entry_content(found, raw_output, max_content_length,
                                           converted, elapsed_ms)
            IN  lastCall' = [NoCall EXCEPT !.op = "extract_entry_content",
                                           !.ret = r.ret, !.raised = r.raised,
                                           !.extracted = r.calls]
    /\ UNCHANGED <<cacheVars, handleVars, frame, file_info_cache, _available_files,
                   disk, described>>

\* ------------------------------------------------- the get_main_entry tool
\* The positional parameters of ContentExtractor._extract_from_entry after
\* self: entry, raw_output.
_extract_from_entry_parameters == 2

\* What the tool leaves behind: what it returned (<<>>: it raised) and the
\* exception that left it.
Returned(value) == [returns |-> <<value>>, raised |-> Ok]
Raised(error) == [returns |-> <<>>, raised |-> error]

\* The exceptions the tool turns into a ToolError.
CaughtByMainEntry == {"ValueError", "RuntimeError", "OSError", "UnicodeDecodeError"}

\* _create_image_content: Image(data=image_bytes, format=...) made into an
\* ImageContent; format_map.get(mime_type, "png").
_create_image_content(image_bytes, mime_type) ==
    LET image_format == IF mime_type = image_ \o <<"p", "n", "g">>
                        THEN <<"p", "n", "g">>
                        ELSE <<"p", "n", "g">>
    IN  [kind |-> "ImageContent", data |-> b64encode(image_bytes),
         mimeType |-> image_ \o image_format]

\* ZimEntryResponse(status="success", entry=ZimEntryContent(...))
ZimEntryResponse(extracted) ==
    [kind |-> "ZimEntryResponse", status |-> "success",
     entry |-> [path |-> extracted.path, title |-> extracted.title,
                content |-> extracted.content,
                content_length |-> extracted.content_length,
                format |-> extracted.content_type,
                mime_type |-> extracted.mime_type,
                processing_time_ms |-> extracted.processing_time_ms,
                is_redirect |-> extracted.is_redirect]]

\* What the tool does with the ExtractedContentInfo of the main entry.
Answer(extracted, raw_output, return_markdown_only) ==
    IF return_markdown_only /\ ~raw_output /\ extracted.content_type = "markdown"
    THEN Returned([kind |-> "str", content |-> extracted.content])
    ELSE Returned(ZimEntryResponse(extracted))

\* The call of a method with the positional arguments args: a method of
\* another number of parameters raises TypeError before its body runs.
Call(args, parameters, result) ==
    IF Len(args) # parameters THEN Raised("TypeError") ELSE result

\* The tool get_main_entry. found is what zim_manager.get_main_entry
\* returned (<<>>: None), entry what libzim gives for that entry.
tool_get_main_entry(zim_file, found, entry, raw_output, return_markdown_only, max_content_length, converted, elapsed_ms) ==
    LET escapes(error) == IF error \in CaughtByMainEntry THEN Raised("ToolError")
                          ELSE Raised(error)
    IN  IF found = <<>> THEN Raised("ToolError")
        ELSE IF entry.raises # Ok THEN escapes(entry.raises)
        ELSE LET item == entry.item[1]
                 mime_type == IF item.mimetype = <<>> THEN application_octet_stream
                              ELSE item.mimetype
             IN  IF ~raw_output /\ startswith(mime_type, image_)
                 THEN Returned(_create_image_content(item.content, mime_type))
                 ELSE LET out == Call(<<entry, raw_output, zim_file>>,
                                      _extract_from_entry_parameters,
                                      _extract_from_entry(entry, raw_output,
                                                          max_content_length,
                                                          converted, elapsed_ms))
                      IN  IF out.raised # Ok THEN escapes(out.raised)
                          ELSE Answer(out.info, raw_output, return_markdown_only)

\* One call of the tool get_main_entry.
ToolGetMainEntry ==
    /\ lastCall.op = "init"
    /\ \E filename \in Filenames :
        \E r \in {get_main_entry(archive_cache, Len(archives), filename)} :
          /\ archive_cache' = r.h.obj
          /\ archives' = IF r.h.opened THEN Append(archives, r.h.key) ELSE archives
          /\ live' = StillOpen(IF r.h.opened THEN live \cup {Len(archives) + 1}
                               ELSE live, r.h.obj, held)
          /\ Touch(r.h.key, r.h.ret # None, r.h)
          /\ lastGetHit' = [k \in Keys |->
                              IF k = r.h.key /\ r.h.hit /\ r.h.ret # None THEN clock + 1
                              ELSE IF k \in DOMAIN r.h.obj.cache THEN lastGetHit[k]
                              ELSE 0]
          /\ \E entry \in IF r.ret = <<>> THEN {CHOOSE e \in Readable : TRUE}
                          ELSE Entries,
                raw_output \in BOOLEAN, return_markdown_only \in BOOLEAN :
              \E max_content_length \in max_content_lengths,
                 converted \in Conversions(entry.item[1].content),
                 elapsed_ms \in 0..MaxElapsed :
                  lastCall' = [NoCall EXCEPT
                      !.op = "tool_get_main_entry",
                      !.filename = filename,
                      !.tool = <<[found |-> r.ret, entry |-> entry,
                                  raw_output |-> raw_output,
                                  return_markdown_only |-> return_markdown_only,
                                  out |-> tool_get_main_entry(
                                             filename, r.ret, entry, raw_output,
                                             return_markdown_only, max_content_length,
                                             converted, elapsed_ms)]>>]
    /\ lastOp' = [NoOp EXCEPT !.op = "tool_get_main_entry"]
    /\ UNCHANGED <<held, frame, file_info_cache, _available_files, disk, described>>

\* ------------------------------------------------------- get_random_entries
\* The largest count the tool takes.
count_le == 50

\* What the tool leaves behind: the response (status, count, entries), the
\* exception that left it, the draws made (of each the position of its file
\* in zim_files and what the draw did: "entry", "None" or the exception
\* raised), and what the draws did to the archive cache (the cache, the
\* Archive objects built, the keys touched, the keys a get hit).
RandomEntriesResponse(st) ==
    [status |-> "success", count |-> Len(st.entries), entries |-> st.entries,
     raised |-> Ok, draws |-> st.draws, cache |-> st.cache,
     archives |-> st.archives, touchedKeys |-> st.touchedKeys,
     hitKeys |-> st.hitKeys]

Failed(st, error) ==
    [status |-> "error", count |-> 0, entries |-> <<>>, raised |-> error,
     draws |-> st.draws, cache |-> st.cache, archives |-> st.archives,
     touchedKeys |-> st.touchedKeys, hitKeys |-> st.hitKeys]

\* The exceptions after which the loop goes on with the next file, and those
\* that leave the tool as a ToolError.
CaughtPerFile == {"FileNotFoundError", "RuntimeError", "ValueError", "OSError"}
CaughtByTool == {"ValueError", "RuntimeError", "OSError"}

\* A quota of the whole count for every file.
entries_per_file_all(count, n) == count

\* A quota of count // len(zim_files), be it zero.
entries_per_file_floor(count, n) == count \div n

\* entries_per_file = max(1, count // len(zim_files))
entries_per_file(count, n) == IF count \div n >= 1 THEN count \div n ELSE 1

\* A running total that is never found to have reached the count.
reached_never(random_entries, count) == FALSE

\* len(random_entries) >= count
reached(random_entries, count) == Len(random_entries) >= count

\* RandomEntry(zim_file=..., path=entry.path, title=entry.title,
\* is_redirect=entry.is_redirect)
RandomEntry(zim_file, entry) ==
    [zim_file |-> zim_file, path |-> entry.path, title |-> entry.title,
     is_redirect |-> FALSE]

\* The one value of a set of one: what a round of a loop leaves is worked out
\* once and handed on.
The(S) == CHOOSE x \in S : TRUE

\* The state of the loops before the first draw: self is the archive cache
\* and created the Archive objects built so far.
NoDraw(self, created) ==
    [entries |-> <<>>, draws |-> <<>>, cache |-> self, archives |-> created,
     touchedKeys |-> {}, hitKeys |-> {}, raised |-> Ok]

\* The state st of the loops after a draw from the file at position i, when
\* ZimManager.get_random_entry left r and reading the fields of the entry
\* raised `read` (libzim reads them from the file).
Drawn(zim_files, i, st, r, read) ==
    LET outcome == IF r.raised # Ok THEN r.raised
                   ELSE IF r.ret = <<>> THEN "None"
                   ELSE IF read # Ok THEN read
                   ELSE "entry"
    IN  [entries |-> IF outcome = "entry"
                     THEN Append(st.entries, RandomEntry(zim_files[i], r.ret[1]))
                     ELSE st.entries,
         draws |-> Append(st.draws, [file |-> i, outcome |-> outcome]),
         cache |-> r.h.obj,
         archives |-> IF r.h.opened THEN Append(st.archives, r.h.key)
                      ELSE st.archives,
         touchedKeys |-> IF r.h.ret # None THEN st.touchedKeys \cup {r.h.key}
                         ELSE st.touchedKeys,
         hitKeys |-> IF r.h.hit /\ r.h.ret # None THEN st.hitKeys \cup {r.h.key}
                     ELSE st.hitKeys,
         raised |-> IF outcome \in {"entry", "None"} \cup CaughtPerFile THEN Ok
                    ELSE outcome]

\* What the last draw of st did.
Last(st) == st.draws[Len(st.draws)].outcome

\* The inner loop for the file at position i, with `left` rounds to go;
\* reads[k] is what reading the fields of the entry of the k-th draw raises.
RECURSIVE draw(_, _, _, _, _, _)
draw(zim_files, i, left, count, reads, st) ==
    IF left = 0 THEN st
    ELSE IF reached(st.entries, count) THEN st
    ELSE The({IF Last(s) \in {"entry", "None"}
              THEN draw(zim_files, i, left - 1, count, reads, s)
              ELSE s :
                 s \in {Drawn(zim_files, i, st, r,
                              reads[(Len(st.draws) % Len(reads)) + 1]) :
                           r \in {get_random_entry(st.cache, Len(st.archives),
                                                   zim_files[i], "RuntimeError")}}})

\* The outer loop, from the file at position i on.
RECURSIVE visit(_, _, _, _, _)
visit(zim_files, i, count, reads, st) ==
    IF i > Len(zim_files) \/ st.raised # Ok THEN st
    ELSE The({visit(zim_files, i + 1, count, reads, s) :
                 s \in {draw(zim_files, i, entries_per_file(count, Len(zim_files)),
                             count, reads, st)}})

\* What the tool gives when the loops have left st.
Respond(st) ==
    IF st.raised = Ok THEN RandomEntriesResponse(st)
    ELSE IF st.raised \in CaughtByTool THEN Failed(st, "ToolError")
    ELSE Failed(st, st.raised)

\* get_random_entries, for the list of filenames it is to draw from (the
\* list passed, or the filenames of the discovery when none was passed).
get_random_entries(st, zim_files, count, reads) ==
    IF count <= 0 \/ count > count_le THEN Failed(st, "ToolError")
    ELSE IF zim_files = <<>> THEN Failed(st, "ToolError")
    ELSE The({Respond(s) : s \in {visit(zim_files, 1, count, reads, st)}})

\* The filenames of the lists passed (archives with entries, one with none,
\* a file that is not there) and the lists: of up to MaxFiles filenames.
ZimFileNames ==
    {[absolute |-> FALSE, parts |-> p] :
        p \in {<<"a.zim">>, <<"b.zim">>, <<"sub", "a.zim">>, <<"missing.zim">>}}

ZimFileLists == UNION {[1..n -> ZimFileNames] : n \in 0..MaxFiles}

\* The counts asked for: up to MaxCount of those that validation lets
\* through, the one below them and the one above them.
Counts == (0..MaxCount) \cup {count_le + 1}

\* What reading the fields of the entries drawn raises, draw by draw.
Reads == [1..MaxDraws -> {Ok, "RuntimeError"}]

\* One call of the tool get_random_entries: with a list of filenames, or
\* with none, and then with the filenames that discover_zim_files returns.
GetRandomEntries ==
    /\ lastCall.op = "init"
    /\ \E passed \in {<<>>} \cup {<<l>> : l \in ZimFileLists} :
        \E todo \in IF passed = <<>> THEN Rglob ELSE {<<>>} :
          LET d == discover_zim_files(file_info_cache, _available_files, FALSE, todo)
              discovered == [i \in DOMAIN d.ret |->
                                [absolute |-> FALSE, parts |-> <<d.ret[i].filename>>]]
          IN  \E count \in Counts, reads \in Reads :
                LET discovers == passed = <<>> /\ count > 0 /\ count <= count_le
                    zim_files == IF passed # <<>> THEN passed[1]
                                 ELSE IF discovers THEN discovered ELSE <<>>
                IN  \E st \in {NoDraw(archive_cache, archives)} :
                    \E r \in {get_random_entries(st, zim_files, count, reads)} :
                    /\ file_info_cache' = IF discovers THEN d.cache ELSE file_info_cache
                    /\ _available_files' = IF discovers THEN d.memo
                                           ELSE _available_files
                    /\ archive_cache' = r.cache
                    /\ archives' = r.archives
                    /\ live' = StillOpen(live \cup ((Len(archives) + 1)..Len(r.archives)),
                                         r.cache, held)
                    /\ touched' = [k \in Keys |->
                                     IF k \in r.touchedKeys /\ k \in DOMAIN r.cache.cache
                                     THEN clock + 1
                                     ELSE IF k \in DOMAIN r.cache.cache THEN touched[k]
                                     ELSE 0]
                    /\ lastGetHit' = [k \in Keys |->
                                        IF k \in r.hitKeys /\ k \in DOMAIN r.cache.cache
                                        THEN clock + 1
                                        ELSE IF k \in DOMAIN r.cache.cache
                                        THEN lastGetHit[k]
                                        ELSE 0]
                    /\ lastCall' = [NoCall EXCEPT
                           !.op = "get_random_entries",
                           !.random = <<[zim_files |-> zim_files, count |-> count,
                                         passed |-> passed # <<>>,
                                         response |-> r]>>]
    /\ clock' = clock + 1
    /\ lastOp' = [NoOp EXCEPT !.op = "get_random_entries"]
    /\ UNCHANGED <<held, frame, disk, described>>

\* ------------------------------------------------------ concurrent callers
\* Neither LRUCache nor ZimManager takes a lock. With callers on threads of
\* their own, a call is the sequence of its statements and the statements of
\* different callers interleave; each statement's one dict or list operation
\* is atomic. A caller is at the statement named by its source line.
Idle == [pc |-> "idle", op |-> "none", key |-> <<>>, value |-> None,
         oldest_key |-> <<>>, ret |-> None, raised |-> Ok]

\* The call of op is over: it returned ret or raised.
Done(op, ret, raised) == [Idle EXCEPT !.op = op, !.ret = ret, !.raised = raised]

\* The LRUCache method callee returns ret, or raises, into the frame f.
\* get_archive returns a cached archive at once, goes on to open one after a
\* miss, returns the archive it has put, and turns the exceptions it catches
\* into None; clear_caches goes on to its other caches.
ReturnFrom(f, callee, ret, raised) ==
    IF f.op = "get_archive"
    THEN IF raised # Ok
         THEN Done(f.op, None, IF raised \in Caught THEN Ok ELSE raised)
         ELSE IF callee = "get"
              THEN IF ret # None THEN Done(f.op, ret, Ok)
                   ELSE [f EXCEPT !.pc = "L203"]
              ELSE Done(f.op, f.value, Ok)
    ELSE IF f.op = "clear_caches" THEN [f EXCEPT !.pc = "L301"]
    ELSE Done(f.op, ret, raised)

At(c, pc) == frame[c].pc = pc
Goto(c, pc) == frame' = [frame EXCEPT ![c].pc = pc]
Returns(c, callee, ret, raised) ==
    frame' = [frame EXCEPT ![c] = ReturnFrom(frame[c], callee, ret, raised)]
CanStart(c) == clock < MaxThreadCalls /\ At(c, "idle")
Enter(c, op, pc, key, value) ==
    /\ clock' = clock + 1
    /\ frame' = [frame EXCEPT ![c] = [Idle EXCEPT !.pc = pc, !.op = op,
                                                  !.key = key, !.value = value]]
    /\ UNCHANGED <<archive_cache, lastOp, touched, lastGetHit, handleVars, infoVars>>
KeepButCache == <<lastOp, clock, touched, lastGetHit, handleVars, infoVars>>
KeepButFrame == <<archive_cache, lastOp, clock, touched, lastGetHit, handleVars,
                  infoVars>>

StartGet(c, key) ==
    /\ CanStart(c)
    /\ Enter(c, "get", "L111", key, None)

StartPut(c, key, value) ==
    /\ CanStart(c)
    /\ Enter(c, "put", "L120", key, value)

StartClear(c) ==
    /\ CanStart(c)
    /\ Enter(c, "clear", "L137", <<>>, None)

\* get_archive up to the cache lookup: the path is validated and looked for on
\* disk, which touches nothing shared.
StartGetArchive(c, filename) ==
    /\ CanStart(c)
    /\ LET v == validate_zim_file_path(filename, zim_files_directory)
       IN  IF v.raised = Ok /\ v.path \in Files
           THEN Enter(c, "get_archive", "L111", v.path, None)
           ELSE /\ clock' = clock + 1
                /\ frame' = [frame EXCEPT ![c] = Done("get_archive", None, Ok)]
                /\ UNCHANGED <<archive_cache, lastOp, touched, lastGetHit, handleVars,
                               infoVars>>

StartClearCaches(c) ==
    /\ CanStart(c)
    /\ Enter(c, "clear_caches", "L137", <<>>, None)

\* LRUCache.get
L111(c) ==
    /\ At(c, "L111")
    /\ IF frame[c].key \in DOMAIN archive_cache.cache
       THEN Goto(c, "L113")
       ELSE Returns(c, "get", None, Ok)
    /\ UNCHANGED KeepButFrame

L113(c) ==
    /\ At(c, "L113")
    /\ IF Contains(archive_cache.access_order, frame[c].key)
       THEN /\ archive_cache' = [archive_cache EXCEPT
                                   !.access_order = ListRemove(@, frame[c].key)]
            /\ Goto(c, "L114")
       ELSE /\ Returns(c, "get", None, "ValueError")
            /\ UNCHANGED archive_cache
    /\ UNCHANGED KeepButCache

L114(c) ==
    /\ At(c, "L114")
    /\ archive_cache' = [archive_cache EXCEPT
                           !.access_order = Append(@, frame[c].key)]
    /\ Goto(c, "L115")
    /\ UNCHANGED KeepButCache

L115(c) ==
    /\ At(c, "L115")
    /\ IF frame[c].key \in DOMAIN archive_cache.cache
       THEN Returns(c, "get", archive_cache.cache[frame[c].key], Ok)
       ELSE Returns(c, "get", None, "KeyError")
    /\ UNCHANGED KeepButFrame

\* LRUCache.put
L120(c) ==
    /\ At(c, "L120")
    /\ IF frame[c].key \in DOMAIN archive_cache.cache
       THEN Goto(c, "L122")
       ELSE Goto(c, "L127")
    /\ UNCHANGED KeepButFrame

L122(c) ==
    /\ At(c, "L122")
    /\ archive_cache' = [archive_cache EXCEPT
                           !.cache = DictSet(@, frame[c].key, frame[c].value)]
    /\ Goto(c, "L123")
    /\ UNCHANGED KeepButCache

L123(c) ==
    /\ At(c, "L123")
    /\ IF Contains(archive_cache.access_order, frame[c].key)
       THEN /\ archive_cache' = [archive_cache EXCEPT
                                   !.access_order = ListRemove(@, frame[c].key)]
            /\ Goto(c, "L124")
       ELSE /\ Returns(c, "put", None, "ValueError")
            /\ UNCHANGED archive_cache
    /\ UNCHANGED KeepButCache

L124(c) ==
    /\ At(c, "L124")
    /\ archive_cache' = [archive_cache EXCEPT
                           !.access_order = Append(@, frame[c].key)]
    /\ Returns(c, "put", None, Ok)
    /\ UNCHANGED KeepButCache

L127(c) ==
    /\ At(c, "L127")
    /\ IF size(archive_cache) >= archive_cache.max_size
       THEN Goto(c, "L129")
       ELSE Goto(c, "L132")
    /\ UNCHANGED KeepButFrame

L129(c) ==
    /\ At(c, "L129")
    /\ IF archive_cache.access_order = <<>>
       THEN /\ Returns(c, "put", None, "IndexError")
            /\ UNCHANGED archive_cache
       ELSE /\ archive_cache' = [archive_cache EXCEPT !.access_order = Tail(@)]
            /\ frame' = [frame EXCEPT
                           ![c].oldest_key = Head(archive_cache.access_order),
                           ![c].pc = "L130"]
    /\ UNCHANGED KeepButCache

L130(c) ==
    /\ At(c, "L130")
    /\ IF frame[c].oldest_key \in DOMAIN archive_cache.cache
       THEN /\ archive_cache' = [archive_cache EXCEPT
                                   !.cache = DictDel(@, frame[c].oldest_key)]
            /\ Goto(c, "L132")
       ELSE /\ Returns(c, "put", None, "KeyError")
            /\ UNCHANGED archive_cache
    /\ UNCHANGED KeepButCache

L132(c) ==
    /\ At(c, "L132")
    /\ archive_cache' = [archive_cache EXCEPT
                           !.cache = DictSet(@, frame[c].key, frame[c].value)]
    /\ Goto(c, "L133")
    /\ UNCHANGED KeepButCache

L133(c) ==
    /\ At(c, "L133")
    /\ archive_cache' = [archive_cache EXCEPT
                           !.access_order = Append(@, frame[c].key)]
    /\ Returns(c, "put", None, Ok)
    /\ UNCHANGED KeepButCache

\* LRUCache.clear
L137(c) ==
    /\ At(c, "L137")
    /\ archive_cache' = [archive_cache EXCEPT !.cache = EmptyDict]
    /\ Goto(c, "L138")
    /\ UNCHANGED KeepButCache

L138(c) ==
    /\ At(c, "L138")
    /\ archive_cache' = [archive_cache EXCEPT !.access_order = <<>>]
    /\ Returns(c, "clear", None, Ok)
    /\ UNCHANGED KeepButCache

\* get_archive after a miss: libzim.reader.Archive(str(filepath)) builds a new
\* object (RuntimeError, caught, for a file libzim refuses), then the put.
L203(c) ==
    /\ At(c, "L203")
    /\ IF frame[c].key \in Corrupt
       THEN /\ frame' = [frame EXCEPT ![c] = Done("get_archive", None, Ok)]
            /\ UNCHANGED archives
       ELSE /\ archives' = Append(archives, frame[c].key)
            /\ frame' = [frame EXCEPT ![c].value = Len(archives) + 1,
                                      ![c].pc = "L120"]
    /\ UNCHANGED <<archive_cache, lastOp, clock, touched, lastGetHit, live, held,
                   infoVars>>

\* clear_caches after archive_cache.clear(): self.file_info_cache.clear()
L301(c) ==
    /\ At(c, "L301")
    /\ file_info_cache' = EmptyDict
    /\ Goto(c, "L302")
    /\ UNCHANGED <<archive_cache, lastOp, clock, touched, lastGetHit, handleVars,
                   _available_files, disk, described, lastCall>>

\* self._available_files = None, and the return
L302(c) ==
    /\ At(c, "L302")
    /\ _available_files' = <<>>
    /\ frame' = [frame EXCEPT ![c] = Done("clear_caches", None, Ok)]
    /\ UNCHANGED <<archive_cache, lastOp, clock, touched, lastGetHit, handleVars,
                   file_info_cache, disk, described, lastCall>>

\* A caller runs get_zim_file_info in one piece between the statements of the
\* others (one of the schedules threads allow).
CallGetZimFileInfo(c, filename) ==
    /\ CanStart(c)
    /\ file_info_cache' = get_zim_file_info(file_info_cache, filename).cache
    /\ clock' = clock + 1
    /\ frame' = [frame EXCEPT ![c] = Done("get_zim_file_info", None, Ok)]
    /\ UNCHANGED <<archive_cache, lastOp, touched, lastGetHit, handleVars,
                   _available_files, disk, described, lastCall>>

get_cache_stats(self, cache, memo) ==
    [archive_cache_size |-> size(self), archive_cache_max_size |-> self.max_size,
     file_info_cache_size |-> Cardinality(DOMAIN cache),
     available_files_cached |-> memo # <<>>]

\* A caller reads the statistics, in one piece, while the others are where
\* they are.
CallGetCacheStats(c) ==
    /\ CanStart(c)
    /\ lastCall' = [NoCall EXCEPT
                      !.op = "get_cache_stats",
                      !.stats = <<get_cache_stats(archive_cache, file_info_cache,
                                                  _available_files)>>,
                      !.clearing = {frame[o].pc : o \in
                                      {o \in Callers \ {c} :
                                          frame[o].op = "clear_caches"
                                          /\ frame[o].pc # "idle"}}]
    /\ clock' = clock + 1
    /\ frame' = [frame EXCEPT ![c] = Done("get_cache_stats", None, Ok)]
    /\ UNCHANGED <<archive_cache, lastOp, touched, lastGetHit, handleVars,
                   file_info_cache, _available_files, disk, described>>

StepCache(c) ==
    \/ L111(c) \/ L113(c) \/ L114(c) \/ L115(c)
    \/ L120(c) \/ L122(c) \/ L123(c) \/ L124(c)
    \/ L127(c) \/ L129(c) \/ L130(c) \/ L132(c) \/ L133(c)
    \/ L137(c) \/ L138(c)

\* ---------------------------------------------------------- specifications
InitWith(capacities) ==
    /\ archive_cache \in {LRUCache(n) : n \in capacities}
    /\ lastOp = NoOp
    /\ clock = 0
    /\ touched = [k \in Keys |-> 0]
    /\ lastGetHit = [k \in Keys |-> 0]
    /\ archives = <<>>
    /\ live = {}
    /\ held = [c \in Callers |-> None]
    /\ frame = [c \in Callers |-> Idle]
    /\ file_info_cache = EmptyDict
    /\ _available_files = <<>>
    /\ disk = [root |-> TRUE, files |-> Tree, changes |-> 0]
    /\ described = [f \in Filenames |-> <<>>]
    /\ lastCall = NoCall

Init == InitWith(1..MaxCap)

Next ==
    \/ \E key \in Keys : Get(key)
    \/ \E key \in Keys, value \in Values : Put(key, value)
    \/ Clear

Spec == Init /\ [][Next]_vars

InitAnyCap == InitWith((0 - 1)..MaxCap)

SpecAnyCap == InitAnyCap /\ [][Next]_vars

NextCatalog ==
    \/ \E c \in Callers, filename \in Filenames : GetArchive(c, filename)
    \/ \E c \in Callers : Release(c)
    \/ ClearCaches

SpecCatalog == Init /\ [][NextCatalog]_vars

NextThreads ==
    \/ \E c \in Callers, key \in Keys : StartGet(c, key)
    \/ \E c \in Callers, key \in Keys, value \in Values : StartPut(c, key, value)
    \/ \E c \in Callers : StartClear(c)
    \/ \E c \in Callers : StepCache(c)

SpecThreads == Init /\ [][NextThreads]_vars

NextCatalogThreads ==
    \/ \E c \in Callers, filename \in Filenames : StartGetArchive(c, filename)
    \/ \E c \in Callers : StartClearCaches(c)
    \/ \E c \in Callers, filename \in Filenames : CallGetZimFileInfo(c, filename)
    \/ \E c \in Callers : CallGetCacheStats(c)
    \/ \E c \in Callers : StepCache(c) \/ L203(c) \/ L301(c) \/ L302(c)

SpecCatalogThreads == Init /\ [][NextCatalogThreads]_vars

NextPaths == \E file_path \in PathInputs : ValidatePath(file_path)

SpecPaths == Init /\ [][NextPaths]_vars

NextEntries ==
    \/ \E filename \in Filenames, entry_path \in EntryPaths :
          GetEntryByPath(filename, entry_path)
    \/ \E filename \in Filenames, title \in Titles : GetEntryByTitle(filename, title)
    \/ \E filename \in Filenames : GetMainEntry(filename)
    \/ \E filename \in Filenames : GetRandomEntry(filename)
    \/ ClearCaches

SpecEntries == Init /\ [][NextEntries]_vars

NextInfo ==
    \/ \E force_refresh \in BOOLEAN : Discover(force_refresh)
    \/ \E filename \in Filenames : GetZimFileInfo(filename)
    \/ ClearCaches

SpecInfo == Init /\ [][NextInfo]_vars

NextDisk ==
    \/ \E force_refresh \in BOOLEAN : Discover(force_refresh)
    \/ ClearCaches
    \/ \E filepath \in Tree : Unlink(filepath) \/ Create(filepath)
    \/ Rmtree

InitDisk == InitWith({MaxCap})

SpecDisk == InitDisk /\ [][NextDisk]_vars

NextContent == Extract \/ ExtractEntryContent

InitContent == InitWith({MaxCap})

SpecContent == InitContent /\ [][NextContent]_vars

NextCleared ==
    \/ \E c \in Callers, filename \in Filenames : GetArchive(c, filename)
    \/ \E force_refresh \in BOOLEAN : Discover(force_refresh)
    \/ ClearCaches

InitCleared == InitWith({MaxCap})

SpecCleared == InitCleared /\ [][NextCleared]_vars

NextMainEntry == ToolGetMainEntry

InitMainEntry == InitWith({MaxCap})

SpecMainEntry == InitMainEntry /\ [][NextMainEntry]_vars

NextRandom == GetRandomEntries

InitRandom == InitWith({MaxCap})

SpecRandom == InitRandom /\ [][NextRandom]_vars

\* ------------------------------------------------------------------- claims
Resident == DOMAIN archive_cache.cache

\* The keys a step takes out of the cache.
Leaving == Resident \ DOMAIN archive_cache'.cache

\* The most recently used key: the last of access_order.
MRU(self) == self.access_order[Len(self.access_order)]

\* C1: for a cache built with capacity K >= 1, size() <= K after every get,
\* put and clear.
C1_SizeWithinCapacity ==
    archive_cache.max_size >= 1 => size(archive_cache) <= archive_cache.max_size

\* A put has just evicted a key from a full cache.
C1_Witness ==
    /\ lastOp.op = "put" /\ lastOp.evicted # {}
    /\ size(archive_cache) = archive_cache.max_size

\* C2: the key a put takes out of the cache was touched (inserted or updated
\* by a put, or hit by a get) longer ago than every other resident key.
C2_EvictsLeastRecentlyTouched ==
    [][lastOp'.op = "put" =>
         \A k \in Leaving : \A j \in Resident \ {k} : touched[k] < touched[j]]_vars

\* A put evicted from a cache of two or more keys, one of them refreshed by a get.
C2_Witness ==
    /\ lastOp.op = "put" /\ lastOp.evicted # {}
    /\ size(archive_cache) >= 2
    /\ \E k \in Resident : lastGetHit[k] > 0

\* C3: a get that hits k makes k the most recently used key, and when a put
\* later evicts k no key remains that was resident at the get and has not been
\* touched since (such a key was touched before the get).
C3_GetHitRefreshesRecency ==
    [][/\ (lastOp'.op = "get" /\ lastOp'.key \in Resident) =>
              MRU(archive_cache') = lastOp'.key
       /\ lastOp'.op = "put" =>
              \A k \in Leaving : \A j \in Resident \ {k} :
                  ~(touched[j] < lastGetHit[k])]_vars

\* A put evicted another key and spared one whose latest touch is a get.
C3_Witness ==
    /\ lastOp.op = "put" /\ lastOp.evicted # {}
    /\ \E k \in Resident : lastGetHit[k] > 0 /\ lastGetHit[k] = touched[k]

\* C4: a put(k, v) on a resident k stores v, makes k the most recently used
\* key, evicts nothing and changes neither size() nor any other key's value.
C4_PutHitUpdatesInPlace ==
    [][(lastOp'.op = "put" /\ lastOp'.key \in Resident) =>
         /\ lastOp'.raised = Ok
         /\ DOMAIN archive_cache'.cache = Resident
         /\ size(archive_cache') = size(archive_cache)
         /\ archive_cache'.cache[lastOp'.key] = lastOp'.value
         /\ MRU(archive_cache') = lastOp'.key
         /\ \A j \in Resident \ {lastOp'.key} :
                archive_cache'.cache[j] = archive_cache.cache[j]]_vars

\* A put replaced the value of a resident key in a full cache.
C4_Witness ==
    /\ lastOp.op = "put" /\ lastOp.hit
    /\ size(archive_cache) = archive_cache.max_size

C7_NonPositiveCapacityRejected ==
    archive_cache.max_size <= 0 => lastOp.op = "init"

InFlight(c) == frame[c].pc # "idle"

\* access_order lists exactly the resident keys, each once.
OrderListsResidents(self) ==
    /\ Len(self.access_order) = Cardinality(DOMAIN self.cache)
    /\ \A k \in DOMAIN self.cache : Contains(self.access_order, k)

\* C9: concurrent get, put and clear calls exclude one another, so that each
\* takes effect as a whole: between calls size <= capacity and access_order
\* lists exactly the resident keys, and no call raises.
C9_CallsAreAtomic ==
    /\ \A c \in Callers : frame[c].raised = Ok
    /\ (\A c \in Callers : ~InFlight(c)) =>
          /\ size(archive_cache) <= archive_cache.max_size
          /\ OrderListsResidents(archive_cache)

\* C10: of the callers that are in get_archive for the same file at the same
\* time, having found it not resident, at most one has opened the archive (so
\* that all of them can return one and the same Archive).
C10_OpenedOnceForConcurrentCallers ==
    \A c1, c2 \in Callers :
        (/\ c1 # c2
         /\ InFlight(c1) /\ frame[c1].op = "get_archive"
         /\ InFlight(c2) /\ frame[c2].op = "get_archive"
         /\ frame[c1].key = frame[c2].key)
        => (frame[c1].value = None \/ frame[c2].value = None)

\* C11: clear_caches is atomic with respect to other calls: the statistics a
\* caller reads never show a state in which a clear_caches under way has
\* emptied the handle cache and not yet the descriptor cache or the discovery
\* memo, or has emptied both caches and not yet the memo.
C11_ClearCachesIsAtomic ==
    lastCall.op = "get_cache_stats" =>
        \A pc \in lastCall.clearing :
            /\ pc \in {"L138", "L301"} =>
                   /\ lastCall.stats[1].file_info_cache_size = 0
                   /\ ~lastCall.stats[1].available_files_cached
            /\ pc = "L302" =>
                   /\ lastCall.stats[1].archive_cache_size = 0
                   /\ lastCall.stats[1].file_info_cache_size = 0
                   /\ ~lastCall.stats[1].available_files_cached

\* C12: a handle a caller got from get_archive stays usable for as long as the
\* caller keeps it, whatever the cache does meanwhile: an eviction or a clear
\* takes the archive out of the cache and leaves the caller's Archive open.
C12_HeldHandleStaysUsable ==
    \A c \in Callers : held[c] # None => held[c] \in live

\* The cache has been cleared under two callers that hold different Archives
\* of one file: the first was out of the cache when the second was opened.
C12_Witness ==
    /\ lastOp.op = "clear_caches"
    /\ \E c, o \in Callers :
          /\ c # o
          /\ held[c] # None /\ held[o] # None /\ held[c] # held[o]
          /\ archives[held[c]] = archives[held[o]]

\* C13: validate_zim_file_path raises ValueError for every input whose
\* resolved path lies outside the root, and returns the resolved path, the
\* root followed by the name, for a plain filename.
C13_RejectsOutsideRoot ==
    lastCall.op = "validate_zim_file_path" =>
        LET file_path == lastCall.filename
            target == Resolve(<<>>, IF file_path.absolute THEN file_path.parts
                                    ELSE zim_files_directory \o file_path.parts)
        IN  /\ ~IsRelativeTo(target, zim_files_directory) =>
                   lastCall.raised = "ValueError" /\ lastCall.ret = <<>>
            /\ (/\ ~file_path.absolute
                /\ Len(file_path.parts) = 1
                /\ file_path.parts[1] \notin {"..", "."}) =>
                   /\ lastCall.raised = Ok
                   /\ lastCall.ret = <<zim_files_directory \o file_path.parts>>

\* A relative path that climbs out of the root by way of a directory below it
\* has been rejected.
C13_Witness ==
    /\ lastCall.op = "validate_zim_file_path"
    /\ lastCall.filename = [absolute |-> FALSE, parts |-> <<"sub", "..", "..">>]
    /\ lastCall.raised = "ValueError"

\* C14: for a filename that leaves the root, get_zim_file_info fails with the
\* ValueError of the path validation, and so does get_archive when called with
\* that filename: the caller is not given the None of a file that is absent.
C14_InvalidPathIsRejection ==
    (/\ lastCall.op = "get_zim_file_info"
     /\ validate_zim_file_path(lastCall.filename, zim_files_directory).raised # Ok)
    => /\ lastCall.raised = "ValueError"
       /\ get_archive(archive_cache, Len(archives), lastCall.filename).raised
              = "ValueError"

LookupOps ==
    {"get_entry_by_path", "get_entry_by_title", "get_main_entry", "get_random_entry"}

\* The entry the last lookup asked for is there to be had: the filename stays
\* under the root, the file exists and opens, and the archive holds the entry.
EntryExists ==
    LET v == validate_zim_file_path(lastCall.filename, zim_files_directory)
    IN  /\ v.raised = Ok
        /\ v.path \in Files \ Corrupt
        /\ CASE lastCall.op = "get_entry_by_path" ->
                    has_entry_by_path(v.path, lastCall.arg)
              [] lastCall.op = "get_entry_by_title" ->
                    has_entry_by_title(v.path, lastCall.arg)
              [] lastCall.op = "get_main_entry" -> has_main_entry(v.path)
              [] OTHER -> v.path \notin Empty

\* Every lookup returns None and raises nothing when the entry is not there
\* to be had.
AbsentNotRaised ==
    lastCall.op \in LookupOps =>
        /\ lastCall.raised = Ok
        /\ ~EntryExists => lastCall.ret = <<>>

\* C15 as claimed: get_entry_by_path, get_entry_by_title, get_main_entry and
\* get_random_entry return None and never raise when the file is missing, the
\* archive cannot be had or the entry does not exist, and each of them asks
\* whether the entry exists before it asks for it.
C15_LookupsCheckFirst ==
    /\ AbsentNotRaised
    /\ (lastCall.op \in LookupOps /\ lastCall.looked) => lastCall.checked

\* C15 as amended: the same results, with the existence check made by the
\* three lookups that name an entry; get_random_entry asks for the entry
\* without a check and turns the exception of an archive with no entry into
\* None.
C15_LookupsReturnAbsent ==
    /\ AbsentNotRaised
    /\ (lastCall.op \in LookupOps \ {"get_random_entry"} /\ lastCall.looked) =>
           lastCall.checked /\ EntryExists
    /\ lastCall.op = "get_random_entry" =>
           /\ ~lastCall.checked
           /\ lastCall.looked <=> get_archive(archive_cache, Len(archives),
                                              lastCall.filename).ret # None

\* get_random_entry has asked an archive that has no entry, and returned None.
C15_Witness ==
    /\ lastCall.op = "get_random_entry"
    /\ lastCall.looked /\ ~EntryExists
    /\ lastCall.ret = <<>> /\ lastCall.raised = Ok

\* The path the filename of the last call resolves to.
ResolvedPath(filename) == validate_zim_file_path(filename, zim_files_directory).path

\* A get_archive call for a file that exists under the root: a hit returns the
\* resident Archive and builds none; a miss builds exactly one Archive, of that
\* path, returns it and leaves it resident under the resolved path as the most
\* recently used key, unless libzim refuses the file: then nothing is built,
\* nothing becomes resident and None is returned.
OpensOnMissOnly ==
    LET key == ResolvedPath(lastCall'.filename)
        new == Len(archives) + 1
    IN  (/\ lastOp'.op = "get_archive" /\ clock' = clock + 1
         /\ key \in Files /\ IsRelativeTo(key, zim_files_directory)) =>
            /\ key \in Resident =>
                   /\ archives' = archives
                   /\ lastOp'.ret = archive_cache.cache[key]
                   /\ archive_cache'.cache = archive_cache.cache
            /\ (key \notin Resident /\ key \notin Corrupt) =>
                   /\ archives' = Append(archives, key)
                   /\ lastOp'.ret = new
                   /\ key \in DOMAIN archive_cache'.cache
                   /\ archive_cache'.cache[key] = new
                   /\ MRU(archive_cache') = key
            /\ (key \notin Resident /\ key \in Corrupt) =>
                   /\ archives' = archives
                   /\ lastOp'.ret = None
                   /\ archive_cache'.cache = archive_cache.cache

\* Filenames that resolve to one path get one Archive: the cache is keyed by
\* resolved paths of files under the root, and the Archive resident under a
\* path is of that path.
OneHandlePerPath ==
    /\ Resident \subseteq Tree
    /\ \A k \in Resident : archives[archive_cache.cache[k]] = k
    /\ \A f, g \in Filenames :
          (ResolvedPath(f) = ResolvedPath(g) /\ ResolvedPath(f) \in Resident) =>
              get_archive(archive_cache, Len(archives), f).ret
                  = get_archive(archive_cache, Len(archives), g).ret

\* C16: in every sequence of get_archive calls the archive is opened exactly
\* when its resolved path is not resident; a hit returns the resident Archive
\* without opening; after a miss that opened, the new Archive is resident
\* under the resolved path as most recently used; filenames that resolve to
\* the same path share one cached Archive.
C16_OpenedExactlyOnMiss == []OneHandlePerPath /\ [][OpensOnMissOnly]_vars

\* A filename that is not the plain name of its file has hit the Archive that
\* was opened for the plain name.
C16_Witness ==
    /\ lastOp.op = "get_archive" /\ lastOp.hit /\ lastOp.ret # None
    /\ lastCall.filename.parts = <<"sub", "..", "a.zim">>
    /\ Len(archives) = 1

\* A step that is a discover_zim_files call.
Discovers == lastOp'.op = "discover_zim_files" /\ clock' = clock + 1

\* The list of a walk that completed is kept: the walk memoizes the list it
\* returns, only clear_caches forgets the memo, only a walk replaces it, and a
\* call without force_refresh that finds a memo returns it and neither walks
\* nor opens nor touches the descriptor cache.
MemoServedUntilCleared ==
    /\ (Discovers /\ lastCall'.walked) => _available_files' = <<lastCall'.ret>>
    /\ (_available_files # <<>> /\ _available_files' = <<>>) =>
           lastOp'.op = "clear_caches"
    /\ (_available_files' # _available_files /\ _available_files' # <<>>) =>
           Discovers /\ lastCall'.walked
    /\ (Discovers /\ ~lastCall'.force_refresh /\ _available_files # <<>>) =>
           /\ lastCall'.ret = _available_files[1]
           /\ ~lastCall'.walked /\ lastCall'.opened = 0
           /\ UNCHANGED <<_available_files, file_info_cache>>

\* C17: once a discover_zim_files call has completed a walk, every later
\* discover_zim_files(force_refresh = False) before the next clear_caches
\* returns the memoized list without walking again, whatever has changed on
\* disk in between.
C17_MemoizedUntilCleared == [][MemoServedUntilCleared]_vars

\* A call without force_refresh has returned the memoized list, which names
\* a file that has gone from the disk since the walk.
C17_Witness ==
    /\ lastCall.op = "discover_zim_files"
    /\ ~lastCall.force_refresh /\ ~lastCall.walked
    /\ _available_files = <<lastCall.ret>>
    /\ \E i \in DOMAIN lastCall.ret : lastCall.ret[i].filepath \notin Files

\* C18: a discovery pass never fails because of a single file: it raises
\* nothing, skips the files whose metadata cannot be read, and the list it
\* returns holds the descriptors of exactly the other files, one for each.
C18_ReturnsExactlyTheReadable ==
    (lastCall.op = "discover_zim_files" /\ lastCall.walked) =>
        /\ lastCall.raised = Ok
        /\ Len(lastCall.ret) = Cardinality(disk.files \ Corrupt)
        /\ {lastCall.ret[i].filepath : i \in DOMAIN lastCall.ret}
               = disk.files \ Corrupt

\* C19: in the list one discovery pass returns no two descriptors have the
\* same filename, also when directories under the root hold files of the same
\* base name.
C19_FilenamesDistinct ==
    lastCall.op = "discover_zim_files" =>
        \A i, j \in DOMAIN lastCall.ret :
            i # j => lastCall.ret[i].filename # lastCall.ret[j].filename

\* C20: a get_zim_file_info call for a filename for which an earlier call,
\* with no clear_caches since, returned a descriptor returns that same
\* descriptor and opens no archive.
C20_SecondCallFromCache ==
    (lastCall.op = "get_zim_file_info" /\ lastCall.before # <<>>) =>
        lastCall.ret = lastCall.before /\ lastCall.opened = 0

\* A second call has returned the descriptor that the first call read from
\* the opened archive.
C20_Witness ==
    /\ lastCall.op = "get_zim_file_info"
    /\ lastCall.before # <<>> /\ lastCall.ret = lastCall.before
    /\ lastCall.ret[1].uuid = ResolvedPath(lastCall.filename)

\* C21: a descriptor, once in the descriptor cache, is neither changed nor
\* replaced nor dropped by any call but clear_caches, and every later
\* get_zim_file_info and discover_zim_files call, force_refresh included,
\* yields that descriptor for its filename.
DescriptorsKept ==
    /\ lastOp'.op # "clear_caches" =>
           \A name \in DOMAIN file_info_cache :
               /\ name \in DOMAIN file_info_cache'
               /\ file_info_cache'[name] = file_info_cache[name]
    /\ (lastOp'.op \in {"get_zim_file_info", "discover_zim_files"}
        /\ clock' = clock + 1) =>
           \A i \in DOMAIN lastCall'.ret :
               lastCall'.ret[i].filename \in DOMAIN file_info_cache =>
                   lastCall'.ret[i] = file_info_cache[lastCall'.ret[i].filename]
    /\ (lastOp'.op = "get_zim_file_info" /\ clock' = clock + 1
        /\ lastCall'.before # <<>>) => lastCall'.ret = lastCall'.before

C21_DescriptorNeverReplaced == [][DescriptorsKept]_vars

\* A discovery with force_refresh has walked the tree and returned, for a
\* filename, the descriptor that get_zim_file_info had created before it.
C21_Witness ==
    /\ lastCall.op = "discover_zim_files"
    /\ lastCall.force_refresh /\ lastCall.walked
    /\ \E f \in Filenames : \E i \in DOMAIN lastCall.ret :
          described[f] = <<lastCall.ret[i]>>

\* C22: a descriptor created for a file larger than
\* config.max_zim_file_size_mb is the degraded one (no articles, no media,
\* the placeholder description, both index flags false), built without an
\* Archive and with the archive_cache as it was; a descriptor created for a
\* file at or below the limit carries what the archive, opened for it,
\* declares.
DescriptorBySize ==
    \A name \in DOMAIN file_info_cache' \ DOMAIN file_info_cache :
        LET file_info == file_info_cache'[name]
            counts == [article_count |-> file_info.article_count,
                       media_count |-> file_info.media_count,
                       has_fulltext_index |-> file_info.has_fulltext_index,
                       has_title_index |-> file_info.has_title_index]
        IN  /\ archive_cache' = archive_cache
            /\ IF st_size_mb[file_info.filepath] > max_zim_file_size_mb
               THEN /\ counts = Undeclared
                    /\ file_info.description = LargeFile
                    /\ lastOp'.op = "get_zim_file_info" => lastCall'.opened = 0
               ELSE /\ counts = Declared[file_info.filepath]
                    /\ file_info.description # LargeFile
                    /\ lastOp'.op = "get_zim_file_info" => lastCall'.opened = 1

C22_OversizeIsDegraded == [][DescriptorBySize]_vars

\* get_zim_file_info has made the descriptor of the file above the limit, and
\* the file exactly at the limit has the descriptor its archive declares.
C22_Witness ==
    /\ lastCall.op = "get_zim_file_info"
    /\ lastCall.ret # <<>> /\ lastCall.before = <<>>
    /\ lastCall.ret[1].filepath \in Oversize
    /\ lastCall.opened = 0
    /\ \E name \in DOMAIN file_info_cache :
          /\ st_size_mb[file_info_cache[name].filepath] = max_zim_file_size_mb
          /\ file_info_cache[name].has_title_index

\* The call of _extract_from_entry made, if one was.
Extracted == lastCall.extracted

\* C23: of a redirect entry, with raw_output or without, _extract_from_entry
\* returns the content type "redirect", the content length 0, the processing
\* time 0 and is_redirect true, and it has not fetched the item.
C23_RedirectShortCircuits ==
    \A x \in {Extracted[i] : i \in DOMAIN Extracted} :
        x.entry.is_redirect =>
            /\ x.out.info.content_type = "redirect"
            /\ x.out.info.content_length = 0
            /\ x.out.info.processing_time_ms = 0
            /\ x.out.info.is_redirect
            /\ ~x.out.fetched

\* A redirect to an item that has bytes was extracted with raw_output.
C23_Witness ==
    /\ Extracted # <<>>
    /\ Extracted[1].entry.is_redirect
    /\ Extracted[1].raw_output
    /\ Extracted[1].entry.item[1].content # <<>>
    /\ Extracted[1].out.info.content_type = "redirect"

\* The calls of _extract_from_entry made, and those of them made on an
\* entry that is no redirect and whose item libzim yields.
Extractions == {Extracted[i] : i \in DOMAIN Extracted}

Fetched == {x \in Extractions : ~x.entry.is_redirect /\ x.out.raised = Ok}

\* What raw output is to be of bytes that declare mime_type.
RawOf(content_bytes, mime_type) ==
    IF startswith(mime_type, text_) THEN decode(content_bytes)
    ELSE <<"[Base64 Encoded - ">> \o mime_type \o <<"]\n\n">>
         \o b64encode(content_bytes)

\* text, cut to its first max_content_length symbols and marked when it is
\* longer than that.
UpToLimit(text, max_content_length) ==
    IF Len(text) <= max_content_length THEN text
    ELSE [i \in 1..(max_content_length + 1) |->
             IF i <= max_content_length THEN text[i] ELSE TruncationMarker]

\* C24 as stated: of an entry that is no redirect, extracted with raw_output,
\* the content type is "raw", the processing time 0, and the content the
\* UTF-8 decoding of the bytes when the MIME type starts with "text/", the
\* MIME-type header line and the base64 encoding of the bytes otherwise.
C24_RawIsDecodedOrBase64 ==
    \A x \in Fetched :
        x.raw_output =>
            /\ x.out.info.content_type = "raw"
            /\ x.out.info.processing_time_ms = 0
            /\ x.out.info.content
                  = RawOf(x.entry.item[1].content, x.out.info.mime_type)

\* C24 amended: the content is that text when it is no longer than
\* config.max_content_length, and its first max_content_length symbols
\* followed by the truncation marker when it is longer.
C24_RawUpToLimit ==
    \A x \in Fetched :
        x.raw_output =>
            /\ x.out.info.content_type = "raw"
            /\ x.out.info.processing_time_ms = 0
            /\ x.out.info.content
                  = UpToLimit(RawOf(x.entry.item[1].content, x.out.info.mime_type),
                              x.max_content_length)

\* An image was extracted with raw_output under a limit that its base64
\* text, header included, fits in.
C24_Witness ==
    \E x \in Fetched :
        /\ x.raw_output
        /\ startswith(x.out.info.mime_type, image_)
        /\ Len(x.entry.item[1].content) = 2
        /\ Len(x.out.info.content) = Len(x.out.info.mime_type) + 6

\* The symbols of a text.
Symbols(text) == {text[i] : i \in DOMAIN text}

\* C25: of an entry of a "text/" MIME type extracted with raw_output, unless
\* the bytes are more than config.max_content_length, the content is the
\* UTF-8 decoding of the bytes and holds no truncation marker.
C25_RawTextRoundTrip ==
    \A x \in Fetched :
        (/\ x.raw_output
         /\ startswith(x.out.info.mime_type, text_)
         /\ Len(x.entry.item[1].content) <= x.max_content_length) =>
            /\ x.out.info.content = decode(x.entry.item[1].content)
            /\ TruncationMarker \notin Symbols(x.out.info.content)

\* A text of exactly max_content_length bytes, one of them no valid UTF-8,
\* was extracted with raw_output and came back whole, that byte replaced.
C25_Witness ==
    \E x \in Fetched :
        /\ x.raw_output
        /\ startswith(x.out.info.mime_type, text_)
        /\ Len(x.entry.item[1].content) = x.max_content_length
        /\ Len(x.out.info.content) = x.max_content_length
        /\ "U+FFFD" \in Symbols(x.out.info.content)

\* The first of the classes, in the order of the claim, that a MIME type is
\* of.
FirstMatch(mime_type) ==
    LET classes == <<[prefix |-> text_html, kind |-> "markdown"],
                     [prefix |-> text_, kind |-> "text"],
                     [prefix |-> image_, kind |-> "image_metadata"],
                     [prefix |-> application_json, kind |-> "json"],
                     [prefix |-> <<>>, kind |-> "binary_metadata"]>>
        first == CHOOSE i \in DOMAIN classes :
                    /\ startswith(mime_type, classes[i].prefix)
                    /\ \A j \in 1..(i - 1) : ~startswith(mime_type, classes[j].prefix)
    IN  classes[first].kind

\* text ends with suffix.
endswith(text, suffix) ==
    /\ Len(suffix) <= Len(text)
    /\ SubSeq(text, Len(text) - Len(suffix) + 1, Len(text)) = suffix

\* The content, before the truncation, is what the conversion of a kind makes.
MadeBy(x, kind) ==
    LET content_bytes == x.entry.item[1].content
        content == x.out.processed
    IN  CASE kind = "markdown" ->
                endswith(content, footer(x.out.info.mime_type, Len(content_bytes),
                                         x.out.info.processing_time_ms))
          [] kind = "text" -> content = decode(content_bytes)
          [] kind = "image_metadata" ->
                content # <<>> /\ content[1] = "# Image Entry\n\n**Title**: "
          [] kind = "json" ->
                \/ content = decode(content_bytes)
                \/ /\ json_loads(decode(content_bytes))
                   /\ content = json_dumps(decode(content_bytes), 0)
          [] kind = "binary_metadata" ->
                content # <<>> /\ content[1] = "# Binary Content\n\n**MIME Type**: "

\* C26: of an entry that is no redirect, extracted without raw_output, the
\* MIME type is the declared one, application/octet-stream when none is
\* declared; the content type is that of the first class the MIME type is
\* of, and the content is what the conversion of that class makes.
C26_KindIsFirstMatch ==
    \A x \in Fetched :
        ~x.raw_output =>
            /\ x.out.info.mime_type
                  = IF x.entry.item[1].mimetype = <<>> THEN application_octet_stream
                    ELSE x.entry.item[1].mimetype
            /\ x.out.info.content_type = FirstMatch(x.out.info.mime_type)
            /\ MadeBy(x, x.out.info.content_type)

\* An item that declares no MIME type was extracted without raw_output, as
\* binary metadata of application/octet-stream.
C26_Witness ==
    \E x \in Fetched :
        /\ ~x.raw_output
        /\ x.entry.item[1].mimetype = <<>>
        /\ x.out.info.mime_type = application_octet_stream
        /\ x.out.info.content_type = "binary_metadata"

\* The calls made without raw_output on an item of a type under "text/html",
\* and those of them in which the conversion raised.
Html == {x \in Fetched : ~x.raw_output /\ startswith(x.out.info.mime_type, text_html)}

HtmlFailed == {x \in Html : x.out.failed}

contains(text, part) ==
    \E i \in 1..(Len(text) - Len(part) + 1) :
        SubSeq(text, i, i + Len(part) - 1) = part

\* C28: the content returned for a text/html entry holds the metadata footer
\* (MIME type, target format, size, processing time) when the conversion
\* succeeded, and holds none when the conversion raised.
C28_FooterOnSuccessOnly ==
    \A x \in Html :
        LET block == footer(x.out.info.mime_type, Len(x.entry.item[1].content),
                            x.out.info.processing_time_ms)
        IN  IF x.out.failed
            THEN ~contains(x.out.info.content, block)
            ELSE contains(x.out.info.content, block)

\* The part of C28 about a conversion that raised, on the content before the
\* truncation: no footer follows the fallback.
NoFooterOnFailure ==
    \A x \in HtmlFailed :
        ~contains(x.out.processed,
                  footer(x.out.info.mime_type, Len(x.entry.item[1].content),
                         x.out.info.processing_time_ms))

\* len() of the truncation marker, a symbol.
MarkerLength == Len(<<TruncationMarker>>)

\* C29: of an entry that is no redirect, the content returned is the first
\* config.max_content_length symbols of the converted text and then the
\* truncation marker, no longer than limit and marker together, when the
\* converted text is longer than the limit, and the converted text as it is
\* otherwise; the content length reported is the number of bytes of the
\* item.
C29_TruncatedAboveLimitOnly ==
    \A x \in Fetched :
        LET M == x.max_content_length
            converted == x.out.processed
            content == x.out.info.content
        IN  /\ IF Len(converted) > M
               THEN /\ Len(content) = M + MarkerLength
                    /\ \A i \in 1..M : content[i] = converted[i]
                    /\ content[M + 1] = TruncationMarker
               ELSE content = converted
            /\ x.out.info.content_length = Len(x.entry.item[1].content)

\* A converted text one symbol longer than the limit was cut and marked, and
\* the content length reported is that of the three bytes of the item.
C29_Witness ==
    \E x \in Fetched :
        /\ ~x.raw_output
        /\ Len(x.out.processed) = x.max_content_length + 1
        /\ x.out.info.content[x.max_content_length + 1] = TruncationMarker
        /\ x.out.info.content_length = 3

\* The calls made without raw_output on an item of a type under
\* "application/json".
Json ==
    {x \in Fetched : /\ ~x.raw_output
                     /\ ~startswith(x.out.info.mime_type, text_)
                     /\ ~startswith(x.out.info.mime_type, image_)
                     /\ startswith(x.out.info.mime_type, application_json)}

C37_RecencyListIsPermutation ==
    LET order == archive_cache.access_order
    IN  /\ {order[i] : i \in DOMAIN order} = DOMAIN archive_cache.cache
        /\ \A i, j \in DOMAIN order : order[i] = order[j] => i = j

\* A put on a resident key of a cache that holds two keys has completed.
C37_Witness ==
    /\ lastOp.op = "put" /\ lastOp.hit
    /\ Len(archive_cache.access_order) = 2
    /\ DOMAIN archive_cache.cache
          = {archive_cache.access_order[1], archive_cache.access_order[2]}

\* C38: a get of a key that is not resident returns None and leaves the
\* archive_cache as it is, and so does a get_archive that returns None (the
\* path leaves the root, the file is missing, the archive does not open):
\* the same keys, the same values, the same access_order.
GetMissLeavesCache ==
    \A key \in Tree :
        key \notin DOMAIN archive_cache.cache =>
            LET r == get(archive_cache, key)
            IN  r.obj = archive_cache /\ r.ret = None /\ r.raised = Ok

AbsentLeavesCache ==
    (lastOp'.op = "get_archive" /\ clock' = clock + 1 /\ lastOp'.ret = None) =>
        /\ archive_cache' = archive_cache
        /\ lastOp'.raised = Ok

C38_FailuresLeaveCacheUnchanged ==
    []GetMissLeavesCache /\ [][AbsentLeavesCache]_vars

\* get_archive looked the file that does not open up in a cache that holds
\* an archive, missed, and returned None.
C38_Witness ==
    /\ lastOp.op = "get_archive"
    /\ lastOp.ret = None
    /\ lastOp.key \in Corrupt
    /\ ~lastOp.hit
    /\ archive_cache.access_order # <<>>

\* C39: the descriptor get_zim_file_info returns for a filename has the
\* resolved path of that filename for filepath, and the list of a discovery
\* that walked holds, for every file under the root that can be read, a
\* descriptor whose filepath is that file, whatever was described before.
C39_DescriptorDescribesItsFile ==
    /\ (lastCall.op = "get_zim_file_info" /\ lastCall.ret # <<>>) =>
          lastCall.ret[1].filepath = ResolvedPath(lastCall.filename)
    /\ (lastCall.op = "discover_zim_files" /\ lastCall.walked) =>
          \A f \in disk.files \ Corrupt :
              \E i \in DOMAIN lastCall.ret : lastCall.ret[i].filepath = f

\* C40: when discover_zim_files(force_refresh=True) has returned a list,
\* _available_files holds that list, so that the call without force_refresh
\* that follows returns it: also when the root directory is missing and the
\* list is empty.
MemoHoldsRefreshed ==
    (lastCall'.op = "discover_zim_files" /\ clock' = clock + 1
     /\ lastCall'.force_refresh) =>
        /\ _available_files' = <<lastCall'.ret>>
        /\ \A todo \in Rglob :
              discover_zim_files(file_info_cache', _available_files', FALSE, todo).ret
                 = lastCall'.ret

C40_RefreshedListIsMemoized == [][MemoHoldsRefreshed]_vars

\* C36: when clear_caches has returned, the archive_cache holds nothing, the
\* file_info_cache is empty and _available_files is None; the get_archive
\* that comes next, whatever the file, finds nothing resident and builds the
\* Archive anew, and the discover_zim_files that comes next walks the tree.
ClearedThenFresh ==
    /\ lastOp'.op = "clear_caches" =>
          /\ size(archive_cache') = 0
          /\ archive_cache'.access_order = <<>>
          /\ file_info_cache' = EmptyDict
          /\ _available_files' = <<>>
    /\ (lastOp.op = "clear_caches" /\ lastOp'.op = "get_archive") =>
          /\ ~lastOp'.hit
          /\ lastOp'.ret # None => /\ Len(archives') = Len(archives) + 1
                                   /\ lastOp'.ret = Len(archives')
    /\ (lastOp.op = "clear_caches" /\ lastOp'.op = "discover_zim_files") =>
          lastCall'.walked

C36_ClearCachesEmptiesAll == [][ClearedThenFresh]_vars

\* get_archive has built a second Archive of a path, in a cache that evicts
\* nothing: clear_caches came between the two.
C36_Witness ==
    /\ lastOp.op = "get_archive"
    /\ \E i, j \in DOMAIN archives : i < j /\ archives[i] = archives[j]
                                     /\ lastOp.ret = j
    /\ file_info_cache = EmptyDict
    /\ _available_files = <<>>

\* The placeholder of lines 188-191.
ProcessingFailed == "[Content processing failed: error]"

\* C31: no exception leaves extract_entry_content, and when an exception was
\* raised while the entry was processed, in fetching its item or in the
\* conversion, what is returned is a text that tells of the failure.
C31_PipelineFailureIsPlaceholder ==
    lastCall.op = "extract_entry_content" =>
        /\ lastCall.raised = Ok
        /\ \A x \in Extractions :
              (x.out.raised # Ok \/ x.out.failed) =>
                  /\ lastCall.ret # <<>>
                  /\ lastCall.ret[1].content # <<>>
                  /\ lastCall.ret[1].content[1] \in {ProcessingFailed, ConversionFailed}

\* The call of get_random_entries made, if one was, and those with a list of
\* filenames to draw from and a count that the validation lets through.
RandomCalls == {lastCall.random[i] : i \in DOMAIN lastCall.random}

Distributed ==
    {x \in RandomCalls : x.zim_files # <<>> /\ x.count >= 1 /\ x.count <= count_le}

\* The draws of a call made from the file at position i, and those of them
\* that gave an entry.
DrawsFrom(x, i) == {k \in DOMAIN x.response.draws : x.response.draws[k].file = i}

Contributed(x, i) == {k \in DrawsFrom(x, i) : x.response.draws[k].outcome = "entry"}

\* C32 as stated: for every list of N >= 1 filenames and every count C >= 1,
\* whatever draws fail, get_random_entries returns a response of at most C
\* entries and raises nothing; a draw that raises ends the draws from its
\* file and no other.
C32_AtMostCountForEveryCount ==
    \A x \in RandomCalls :
        (x.zim_files # <<>> /\ x.count >= 1) =>
            /\ x.response.raised = Ok
            /\ x.response.status = "success"
            /\ Len(x.response.entries) <= x.count

\* C32 amended: the same for every count C from 1 to 50, the counts that the
\* tool takes.
C32_AtMostCount ==
    \A x \in Distributed :
        /\ x.response.raised = Ok
        /\ x.response.status = "success"
        /\ x.response.count = Len(x.response.entries)
        /\ Len(x.response.entries) <= x.count
        /\ \A k \in DOMAIN x.response.draws :
              x.response.draws[k].outcome = "RuntimeError" =>
                  \A later \in DOMAIN x.response.draws :
                      later > k => x.response.draws[later].file
                                      > x.response.draws[k].file

\* A draw from the first of three files raised, draws from the files after
\* it gave entries, and the response holds fewer entries than were asked for.
C32_Witness ==
    \E x \in Distributed :
        /\ Len(x.zim_files) = 3
        /\ x.response.draws[1].outcome = "RuntimeError"
        /\ Contributed(x, 2) # {}
        /\ Len(x.response.entries) >= 1
        /\ Len(x.response.entries) < x.count

\* The entries that the draws before the k-th of a call had given.
TotalBefore(x, k) ==
    Cardinality({j \in 1..(k - 1) : x.response.draws[j].outcome = "entry"})

\* C33: of a list of N filenames and a count C no file contributes more than
\* max(1, floor(C/N)) entries, the files are visited in the order of the
\* list, and no draw is made once the running total has reached C; of three
\* files and a count of 10 each file contributes at most 3.
C33_QuotaOrderAndStop ==
    \A x \in Distributed :
        LET N == Len(x.zim_files)
            C == x.count
            quota == IF C \div N >= 1 THEN C \div N ELSE 1
            draws == x.response.draws
        IN  /\ \A i \in 1..N : Cardinality(Contributed(x, i)) <= quota
            /\ \A j, k \in DOMAIN draws : j < k => draws[j].file <= draws[k].file
            /\ \A k \in DOMAIN draws : TotalBefore(x, k) < C
            /\ \A k \in DOMAIN x.response.entries :
                  \E d \in DOMAIN draws :
                      /\ draws[d].outcome = "entry"
                      /\ TotalBefore(x, d) = k - 1
                      /\ x.response.entries[k].zim_file = x.zim_files[draws[d].file]
            /\ (N = 3 /\ C = 10) =>
                  \A i \in 1..N : Cardinality(Contributed(x, i)) <= 3

\* Three files and a count of 10: each of the files contributed 3 entries.
C33_Witness ==
    \E x \in Distributed :
        /\ Len(x.zim_files) = 3
        /\ x.count = 10
        /\ \A i \in 1..3 : Cardinality(Contributed(x, i)) = 3

\* The calls every draw of which gave an entry.
AllDrawn ==
    {x \in Distributed :
        \A k \in DOMAIN x.response.draws : x.response.draws[k].outcome = "entry"}

\* C34: when every draw gives an entry, a list of N filenames and a count C
\* give min(C, N * max(1, floor(C/N))) entries: C of them when N divides C
\* or N > C (and then one from each of the first C files and none from the
\* others), fewer than C only when N < C and N does not divide C.
C34_ExactCountWhenAllDrawsSucceed ==
    \A x \in AllDrawn :
        LET N == Len(x.zim_files)
            C == x.count
            quota == IF C \div N >= 1 THEN C \div N ELSE 1
            returned == Len(x.response.entries)
        IN  /\ returned = IF C <= N * quota THEN C ELSE N * quota
            /\ (C % N = 0 \/ N > C) => returned = C
            /\ N > C => \A i \in 1..N :
                           Cardinality(Contributed(x, i)) = IF i <= C THEN 1 ELSE 0
            /\ returned < C => (N < C /\ C % N # 0)

\* Three files and a count of 2, every draw gave an entry: two entries, one
\* from the first file and one from the second, no draw from the third.
C34_Witness ==
    \E x \in AllDrawn :
        /\ Len(x.zim_files) = 3
        /\ x.count = 2
        /\ Len(x.response.entries) = 2
        /\ DrawsFrom(x, 3) = {}

\* The calls of the tool get_main_entry made.
ToolCalls == {lastCall.tool[i] : i \in DOMAIN lastCall.tool}

\* C35: for every archive that has a main entry that can be read, the tool
\* get_main_entry returns a markdown string, a structured entry response or
\* image content, for both values of raw_output and of return_markdown_only;
\* it raises only when the archive has no main entry or reading it fails.
C35_MainEntryIsReturned ==
    \A x \in ToolCalls :
        /\ (x.found # <<>> /\ x.entry.raises = Ok) =>
              /\ x.out.raised = Ok
              /\ x.out.returns[1].kind \in {"str", "ZimEntryResponse", "ImageContent"}
        /\ x.out.raised # Ok => (x.found = <<>> \/ x.entry.raises # Ok)

====
